---- MODULE Spec2Model ----
(***************************************************************************)
(* A model of the simbiota on-access decision pipeline:                    *)
(*   - the fanotify reader thread (monitor_listen) and its event walk,     *)
(*   - the MonitorResponder thread,                                        *)
(*   - the decision worker (DetectionSystem::start / detector_callback),   *)
(*   - the stat-based detection cache,                                     *)
(*   - the compare-against-all TLSH detector and its database handle,      *)
(*   - the database watcher (SystemDatabase::mark_update),                 *)
(*   - the post-detection threads (file_detected_action),                  *)
(*   - the quarantine directory (Quarantine) and the worker's commands,    *)
(*   - the control server thread (ControlServer) and its clients.          *)
(*                                                                         *)
(* The specifications share the same actions:                              *)
(*   Spec       the whole pipeline: kernel, reader, responder, worker      *)
(*   SpecCache  the pipeline fed one event at a time while the             *)
(*              environment changes the files (in-memory cache)            *)
(*   SpecDetect the pipeline fed one event at a time, over every           *)
(*              signature object of the bounds (no cache)                  *)
(*   SpecDb     the pipeline fed one event at a time while the watcher     *)
(*              reloads the signature database                             *)
(*   SpecReload the same with the in-memory cache enabled                  *)
(*   SpecAdd    detections that move files to the quarantine while the     *)
(*              files are written again                                    *)
(*   SpecQuarantine  the same with clients that list, restore and delete   *)
(*   SpecControlServer  the control server from its start on, and every    *)
(*              request a client may send                                  *)
(*   SpecChannel  the whole pipeline with failing reads and writes of the  *)
(*              notification channel                                       *)
(*   SpecBroken the watcher reloading a database file that may be          *)
(*              unreadable, unparsable or without a signature object       *)
(*   SpecStat   SpecCache with files whose fstat fails                     *)
(*   SpecUnnamed  SpecCache with events whose path does not resolve        *)
(*   SpecMark   the start of the monitor thread over every outcome of      *)
(*              marking the configured watches                             *)
(*   SpecBusy   SpecQuarantine with accesses and client requests arriving  *)
(*              at any time                                                *)
(*   SpecList   the list command over every quarantine directory the      *)
(*              daemon may start over                                      *)
(*   SpecExcl   SpecQuarantine with add_file taken step by step under the  *)
(*              quarantine mutex                                           *)
(*   SpecSwap   SpecAdd while the detected path is removed or replaced     *)
(*              before the post-detection thread runs                      *)
(*   SpecWalk   the walk of one buffer of event records                    *)
(*   SpecRead   the read loop of check_reader over every file content      *)
(* FairSpec is Spec with the fairness of the daemon's threads.             *)
(***************************************************************************)
EXTENDS Integers, Sequences, FiniteSets, TLC

(***************************************************************************)
(* Bounds of the model.                                                    *)
(***************************************************************************)
\* kernel events generated in one behaviour of the whole pipeline
MaxEvents == 3
\* accesses by other processes in one behaviour of the worker fed one
\* event at a time
MaxScans == 2
\* entries of one signature object
MaxEntries == 2
\* changes the environment makes to the files in one behaviour
MaxTouch == 1
\* database file replacements in one behaviour
MaxUpdates == 1
\* connections made to the control socket
MaxCommands == 2
\* failures of the notification channel in one run
MaxFaults == 1
\* configured watches (paths_to_add)
MaxWatches == 2
\* event records in the buffer one read returns
MaxRecords == 3
\* runs of equal bytes in the content a reader produces
MaxRuns == 2

(***************************************************************************)
(* Program constants.                                                      *)
(***************************************************************************)
\* const MSG_BUFFER_SIZE: usize = 1024
MSG_BUFFER_SIZE == 1024
\* size_of::<fanotify_event_metadata>(), FAN_EVENT_METADATA_LEN
MetadataLen == 24
\* the legacy threshold used when the configuration names none
DefaultThreshold == 40
\* const READ_BUFFER_SIZE: usize = 1024
READ_BUFFER_SIZE == 1024

(***************************************************************************)
(* Values.                                                                 *)
(***************************************************************************)
Pids == {"daemon", "other"}
\* FANOTIFY_PERM_EVENTS = FAN_OPEN_EXEC_PERM | FAN_ACCESS_PERM | FAN_OPEN_PERM
FANOTIFY_PERM_EVENTS == {"OPEN_PERM", "OPEN_EXEC_PERM", "ACCESS_PERM"}
\* the masks the kernel delivers here: one kind per event
Masks == {{"OPEN"}, {"OPEN_PERM"}, {"OPEN_EXEC_PERM"}, {"ACCESS_PERM"}}
Paths == {"/a", "/b"}
\* the six fields of StatBasedCacheData
StatFields == {"size", "uid", "gid", "mtime", "ctime", "mode"}
StatData == [StatFields -> {0, 1}]
Stat0 == [f \in StatFields |-> 0]
\* file contents, named by the TLSH value they hash to; 0 is the empty file,
\* for which the builder yields no hash
FileContents == {0, 10, 50, 51}
EntryHashes == {10, 11}
Colors == {0, 1}
\* detection_distance values of stored entries (u8); 0 is "not set"
Distances == {0, 40}

\* an entry of ColoredTLSHWithDistanceObject (modern) / ColoredTLSHObject
\* (legacy: the reload stores detection_distance 0)
ModernEntries == [hash : EntryHashes, color : Colors, distance : Distances]
LegacyEntries == [hash : EntryHashes, color : Colors, distance : {0}]

SeqsUpTo(S, n) == UNION {[1..k -> S] : k \in 0..n}

ModernObjects == SeqsUpTo(ModernEntries, MaxEntries)
LegacyObjects == SeqsUpTo(LegacyEntries, MaxEntries)
ObjectsOf(fmt) == IF fmt = "modern" THEN ModernObjects ELSE LegacyObjects

Min(a, b) == IF a < b THEN a ELSE b
Abs(x) == IF x < 0 THEN 0 - x ELSE x

\* no control request
NoRequest == [n |-> 0, cmd |-> "none", arg |-> ""]

\* the quarantine directory: payload files and sidecar files by uuid
EmptyDir == [payloads |-> <<>>, sidecars |-> <<>>]

\* the names uuid::Uuid::new_v4 draws from
Uuids == 1..MaxScans

\* a zeroed fanotify_event_metadata: the buffer starts as [0; MSG_BUFFER_SIZE]
ZeroRecord == [fd |-> 0, pid |-> "other", mask |-> {}, path |-> "/a",
               named |-> TRUE, event_len |-> 0]

VARIABLES
    \* configuration, fixed after construction
    cacheEnabled,      \* !is_cache_disabled(daemon_config)
    quarantineEnabled, \* daemon_config.quarantine.enabled
    format,            \* which object get_detector found: "modern" | "legacy"
    threshold,         \* legacy threshold (configuration or DefaultThreshold)
    \* environment
    files,             \* path -> [exists, stat, content, readErr, parent,
                       \*          statErr: fstat on a descriptor of it fails]
    touches,           \* environment changes made so far
    kernelQ,           \* events queued in the fanotify group, not yet read
    nextFd,            \* next event fd the kernel hands out
    alive,             \* the daemon process runs
    \* reader thread (monitor_listen)
    readerPc, msg_buffer, read_len, start_ptr, readerEv,
    write_lock,        \* "free" | "reader" | "responder" | "poisoned"
    \* responder thread (MonitorResponder::start)
    respQ, respPc, respEv, respResult,
    \* decision worker (DetectionSystem::start, main thread)
    detQ, clientRx, workerPc, workerCmd, waitFd,
    no_cache, res, hash, snapshot, compare_counter,
    cache,             \* MemoryDetectionCache.cache_map
    \* signature database
    dbFile, updates, inotifyQ, holder, dbObject, objLock, changed, hashes,
    watcherPc,
    \* post-detection threads
    spawned, quarantineDir,
    \* history
    delivered,         \* events the daemon has read from the channel
    written,           \* response records written to the channel, in order
    invoked,           \* fds whose event reached check_reader
    cacheGets,         \* the calls of get_result_for and what they returned
    cacheSets,         \* fds whose event called set_result_for
    lastSet,           \* key -> fingerprint and result of its last set
    returned,          \* what detector_callback returned for each event
    loadedObj,         \* the object the detector's hashes were built from
    stored,            \* the objects mark_update has stored, oldest first
    version,           \* number of completed mark_update stores
    loadedVersion,     \* version of loadedObj
    startVersion,      \* version completed when the running detection began
    \* quarantine (Quarantine behind its mutex)
    poisoned,          \* a thread panicked while it held the quarantine mutex
    adds,              \* history: the completed add_file calls
    acts,              \* history: the restore_entry and remove_entry calls
    \* control server thread (ControlServer::new, listen, serve)
    socket,            \* who is bound to the control address
    ctlPc, ctlConns, ctlCur, ctlRx,
    conns,             \* connections made to the control socket so far
    ctlOut,            \* history: the connections served and what was written
    conflictAt,        \* history: Len(written) when the socket conflict showed
    \* failures of the notification channel, of a reload and of the watch
    \* registration
    faults,            \* history: the failed reads, verdict writes and reloads
    dbState,           \* what reading the database file gives: "ok" or why not
    watches,           \* paths_to_add still to be marked: each mask with what
                       \* fanotify_mark returns for it
    qops,              \* history: the quarantine calls of the decision worker
                       \* and the permission events that waited meanwhile
    \* FanotifyEventIterator over one buffer
    walkBuf, walkLen, walkPtr, walkOut, walkPc,
    \* check_reader over one content
    input,             \* the content behind the reader and the bytes read so far
    buffer,            \* the read buffer of check_reader
    fed,               \* the bytes the hash algorithm was updated with
    rdPc

cfgVars == <<cacheEnabled, quarantineEnabled, format, threshold>>
envVars == <<files, touches, kernelQ, nextFd, alive>>
readerVars == <<readerPc, msg_buffer, read_len, start_ptr, readerEv>>
respVars == <<respQ, respPc, respEv, respResult>>
workerVars == <<detQ, clientRx, workerPc, workerCmd, waitFd, no_cache, res,
                hash, snapshot, compare_counter>>
dbVars == <<dbFile, updates, inotifyQ, holder, dbObject, objLock, changed, hashes,
            watcherPc, loadedObj, stored, version, loadedVersion, startVersion>>
postVars == <<spawned, quarantineDir>>
histVars == <<delivered, written, invoked, cacheGets, cacheSets, lastSet,
             returned>>

ctlVars == <<poisoned, adds, acts, socket, ctlPc, ctlConns, ctlCur, ctlRx,
            conns, ctlOut, conflictAt>>

walkVars == <<walkBuf, walkLen, walkPtr, walkOut, walkPc>>
rdVars == <<input, buffer, fed, rdPc>>
auxVars == <<faults, dbState, watches, qops, walkVars, rdVars>>

vars == <<cfgVars, envVars, readerVars, write_lock, respVars, workerVars,
          cache, dbVars, postVars, histVars, ctlVars, auxVars>>


(***************************************************************************)
(* Pure helpers.                                                           *)
(***************************************************************************)
Range(s) == {s[i] : i \in 1..Len(s)}

\* event_meta.mask & FANOTIFY_PERM_EVENTS > 0
NeedsResponse(mask) == mask \cap FANOTIFY_PERM_EVENTS # {}

\* ComparableHash::diff for ComparableTLSHHash (TLSH::diff): a symmetric,
\* non-negative distance that is 0 for equal hashes
Diff(a, b) == Abs(a - b)

\* ComparableTLSHHash::detection_distance: panics when the distance is 0
DetectionDistancePanics(entry) == entry.distance = 0
DetectionDistance(entry) == entry.distance

\* variant: a diff equal to the threshold matches
CompareFn_Inclusive(fmt, thr, h, entry) ==
    IF fmt = "modern"
    THEN IF DetectionDistancePanics(entry) THEN "panic"
         ELSE IF Diff(entry.hash, h) <= DetectionDistance(entry)
              THEN "match" ELSE "nomatch"
    ELSE IF Diff(entry.hash, h) <= thr THEN "match" ELSE "nomatch"

\* the comparator closures built by get_detector: "match", "nomatch" or
\* "panic" (the modern closure calls detection_distance() on the stored entry)
CompareFn(fmt, thr, h, entry) ==
    IF fmt = "modern"
    THEN IF DetectionDistancePanics(entry) THEN "panic"
         ELSE IF Diff(entry.hash, h) < DetectionDistance(entry)
              THEN "match" ELSE "nomatch"
    ELSE IF Diff(entry.hash, h) < thr THEN "match" ELSE "nomatch"

SelectColor(obj, c) == SelectSeq(obj, LAMBDA e : e.color = c)

\* the loop of DistancedTLSHDatabase::reload / LegacyTLSHDatabase::reload:
\* after clear(), one bucket per colour that occurs, entries in object order
BuildHashes(obj) ==
    [c \in {e.color : e \in Range(obj)} |-> SelectColor(obj, c)]

\* variant: a fingerprint compared by size alone
StatEq_SizeOnly(a, b) == a.size = b.size

\* derived PartialEq of StatBasedCacheData
StatEq(a, b) == \A f \in StatFields : a[f] = b[f]

\* variant: a lookup that never finds an entry
CacheGet_AlwaysAbsent(enabled, map, key, stat) == "none"

\* MemoryDetectionCache::get_result_for / NoopCache::get_result_for
CacheGet(enabled, map, key, stat) ==
    IF enabled /\ key \in DOMAIN map /\ StatEq(stat, map[key].data)
    THEN map[key].result ELSE "none"

\* MemoryDetectionCache::set_result_for / NoopCache::set_result_for
CacheSet(enabled, map, key, stat, result) ==
    IF enabled
    THEN [k \in DOMAIN map \cup {key} |->
            IF k = key THEN [data |-> stat, result |-> result] ELSE map[k]]
    ELSE map

\* the entry cache_map holds for the key: <<>> or <<entry>>
EntryOf(map, key) == IF key \in DOMAIN map THEN <<map[key]>> ELSE <<>>

\* get_filename_from_fd, then unwrap_or_else(|| "<n/a>")
Filename(ev) == IF ev.named THEN ev.path ELSE "<n/a>"

\* variant: an error cached as NoMatch
UnwrapOrElse_CacheErrors(result) ==
    [no_cache |-> FALSE, res |-> IF result = "Err" THEN "NoMatch" ELSE result]

\* .unwrap_or_else(|e| { no_cache = true; DetectionResult::NoMatch }) on
\* what check_reader returned
UnwrapOrElse(result) ==
    IF result = "Err" THEN [no_cache |-> TRUE, res |-> "NoMatch"]
    ELSE [no_cache |-> FALSE, res |-> result]

\* variant: every result allowed
Verdict_AlwaysAllow(result) == "Allow"

\* the verdict detector_callback returns for a detection result
Verdict(result) == IF result = "Match" THEN "Deny" ELSE "Allow"

(***************************************************************************)
(* Quarantine: the directory and the functions of quarantine.rs.           *)
(***************************************************************************)
Put(f, k, v) == [x \in DOMAIN f \cup {k} |-> IF x = k THEN v ELSE f[x]]
Drop(f, k) == [x \in DOMAIN f \ {k} |-> f[x]]

\* variant: a name that may already be in use
NewV4_Reused(dir, log) == Uuids

\* uuid::Uuid::new_v4(): a random name, which no file of the directory and
\* no earlier call has
NewV4(dir, log) == Uuids \ ({a.id : a \in log} \cup DOMAIN dir.payloads)

\* the QuarantineEntryInfo add_file builds from the file's metadata
Info(path, stat) ==
    [original_path |-> path, uid |-> stat.uid, gid |-> stat.gid,
     mode |-> stat.mode]

\* add_file after the exists test: the rename keeps the file's content,
\* owner and times, set_permissions makes the payload 0000, the sidecar is
\* written (QuarantineEntryInfo::serialize, the shape with a String path)
\* and made 0600
AddFile(dir, path, file, id) ==
    [payloads |-> Put(dir.payloads, id,
                      [content |-> file.content, readErr |-> file.readErr,
                       attrs |-> [f \in StatFields \ {"mode"} |-> file.stat[f]],
                       mode |-> "0000"]),
     sidecars |-> Put(dir.sidecars, id,
                      [info |-> Info(path, file.stat), mode |-> "0600",
                       shape |-> "new"])]

\* the order of read_dir, which does not follow the order of the adds
RECURSIVE ReadDir(_)
ReadDir(ids) ==
    IF ids = {} THEN <<>>
    ELSE LET m == CHOOSE x \in ids : \A y \in ids : x <= y
         IN <<m>> \o ReadDir(ids \ {m})

\* OsString::to_string_lossy of the path of a legacy sidecar: bytes that
\* are not UTF-8 become U+FFFD
ToStringLossy(path) == IF path = "/b<ff>" THEN "/b<fffd>" ELSE path

\* a sidecar that parses as LegacyQuarantineEntryInfo is written again in
\* place as QuarantineEntryInfo::serialize of the converted info
Convert(sidecar) ==
    IF sidecar.shape = "legacy"
    THEN [sidecar EXCEPT !.info.original_path = ToStringLossy(@),
                         !.shape = "new"]
    ELSE sidecar

\* the loop of get_stored_entries over read_dir, uuid by uuid: a sidecar
\* whose payload does not exist is removed, a payload whose sidecar does not
\* exist is removed, and for a payload with its sidecar the sidecar is
\* converted when it is legacy, read and pushed as a QuaratineEntry; the
\* expect() of the first read_to_string and the one of
\* QuarantineEntryInfo::deserialize panic on a sidecar that cannot be read
\* or is not the JSON of an entry, and the loop ends there (ok is FALSE)
RECURSIVE Scan(_, _, _)
Scan(dir, ids, entries) ==
    IF ids = <<>> THEN [dir |-> dir, entries |-> entries, ok |-> TRUE]
    ELSE LET x == Head(ids)
             payload == x \in DOMAIN dir.payloads
             sidecar == x \in DOMAIN dir.sidecars
         IN IF sidecar /\ ~payload
            THEN Scan([dir EXCEPT !.sidecars = Drop(@, x)], Tail(ids), entries)
            ELSE IF payload /\ ~sidecar
            THEN Scan([dir EXCEPT !.payloads = Drop(@, x)], Tail(ids), entries)
            ELSE IF payload /\ sidecar
            THEN IF dir.sidecars[x].shape = "broken"
                 THEN [dir |-> dir, entries |-> entries, ok |-> FALSE]
                 ELSE Scan([dir EXCEPT !.sidecars[x] = Convert(@)], Tail(ids),
                           Append(entries,
                                  [id |-> x,
                                   info |-> Convert(dir.sidecars[x]).info]))
            ELSE Scan(dir, Tail(ids), entries)

\* get_stored_entries on the files of the directory
ScanDir(dir) ==
    Scan(dir, ReadDir(DOMAIN dir.payloads \cup DOMAIN dir.sidecars), <<>>)

\* what get_stored_entries leaves of the directory
CleanDir(dir) == ScanDir(dir).dir

\* get_stored_entries: one QuaratineEntry per payload, in read_dir order
GetStoredEntries(dir) == ScanDir(dir).entries

\* get_entries
GetEntries(dir) ==
    LET es == GetStoredEntries(dir) IN [i \in 1..Len(es) |-> es[i].info]

\* get_entry_by_id: Vec::get(id), an Option
GetEntryById(dir, id) ==
    LET es == GetStoredEntries(dir)
    IN IF id + 1 \in 1..Len(es) THEN <<es[id + 1].info>> ELSE <<>>

\* get_entry_by_name: the first entry whose original_path is name
GetEntryByName(dir, name) ==
    LET es == GetStoredEntries(dir)
        hits == {i \in 1..Len(es) : es[i].info.original_path = name}
    IN IF hits = {} THEN <<>>
       ELSE <<es[CHOOSE i \in hits : \A j \in hits : i <= j].info>>

\* entries.iter().find(|e| e.info == entry) of restore_entry and
\* remove_entry: the first entry with an equal info
FindByInfo(es, info) ==
    LET hits == {i \in 1..Len(es) : es[i].info = info}
    IN IF hits = {} THEN 0 ELSE CHOOSE i \in hits : \A j \in hits : i <= j

\* e.parse::<usize>() on the strings a request may carry
Usize == ("0" :> 0) @@ ("1" :> 1) @@ ("2" :> 2)

\* the entry RestoreQuarantineEntry(e) and DeleteQuarantineEntry(e) look up
Lookup(dir, e) ==
    IF e \in DOMAIN Usize THEN GetEntryById(dir, Usize[e])
    ELSE GetEntryByName(dir, e)

\* the file restore_entry leaves at the original path: the payload renamed
\* and set_permissions(info.mode)
Restored(payload, info) ==
    [exists |-> TRUE,
     stat |-> [f \in StatFields |-> IF f = "mode" THEN info.mode
                                    ELSE payload.attrs[f]],
     content |-> payload.content, readErr |-> payload.readErr,
     parent |-> TRUE, statErr |-> FALSE]

(***************************************************************************)
(* The kernel: a file access queues an event record with a fresh fd.       *)
(***************************************************************************)
NewEvent(pid, mask, path, named) ==
    [fd |-> nextFd, pid |-> pid, mask |-> mask, path |-> path,
     named |-> named, event_len |-> MetadataLen]

KernelEvent ==
    /\ alive
    /\ nextFd <= MaxEvents
    /\ \E pid \in Pids, mask \in Masks, path \in Paths :
          /\ files[path].exists
          /\ kernelQ' = Append(kernelQ, NewEvent(pid, mask, path, TRUE))
    /\ nextFd' = nextFd + 1
    /\ UNCHANGED <<cfgVars, files, touches, alive, readerVars, write_lock,
                   respVars, workerVars, cache, dbVars, postVars, histVars,
                   ctlVars, auxVars>>

(***************************************************************************)
(* Reader thread: monitor_listen.                                          *)
(***************************************************************************)
\* the record at byte offset off of msg_buffer; slots never written are
\* zero; an offset outside the buffer reads whatever memory follows it
Deref(buf, off) ==
    IF off + MetadataLen <= MSG_BUFFER_SIZE
    THEN IF off % MetadataLen = 0 /\ off \div MetadataLen < Len(buf)
         THEN {buf[(off \div MetadataLen) + 1]}
         ELSE {ZeroRecord}
    ELSE {ZeroRecord} \cup Range(buf)

\* start_ptr.add(event_len) on a *const fanotify_event_metadata: pointer
\* arithmetic in units of the pointee, not of bytes
PtrAdd(ptr, count) == ptr + count * MetadataLen

\* poll() and read(): one read returns every queued record that fits
ReaderRead ==
    /\ alive
    /\ readerPc = "poll"
    /\ kernelQ # <<>>
    /\ LET k == Min(Len(kernelQ), MSG_BUFFER_SIZE \div MetadataLen)
           batch == SubSeq(kernelQ, 1, k)
       IN /\ msg_buffer' = batch \o SubSeq(msg_buffer, k + 1, Len(msg_buffer))
          /\ read_len' = k * MetadataLen
          /\ kernelQ' = SubSeq(kernelQ, k + 1, Len(kernelQ))
          /\ delivered' = delivered \cup Range(batch)
    /\ start_ptr' = <<>>
    /\ readerPc' = "walk"
    /\ UNCHANGED <<cfgVars, files, touches, nextFd, alive, readerEv,
                   write_lock, respVars, workerVars, cache, dbVars, postVars,
                   written, invoked, cacheGets, cacheSets, lastSet, returned,
                   ctlVars, auxVars>>

\* variant: no branch for the daemon's own pid
ReaderHandle_NoOwnPidBranch(rec) ==
    /\ respQ' = Append(respQ, [kind |-> IF NeedsResponse(rec.mask)
                                        THEN "PermEvent" ELSE "NormalEvent",
                               meta |-> rec])
    /\ UNCHANGED <<readerPc, readerEv, ctlVars, auxVars>>

\* the body of `for event_meta in event_iterator`; sender.send(..).unwrap()
\* panics once the responder thread, which owns the receiver, is gone
ReaderHandle(rec) ==
    IF NeedsResponse(rec.mask) /\ rec.pid = "daemon"
    THEN /\ readerPc' = "lock"
         /\ readerEv' = rec
         /\ respQ' = respQ
    ELSE IF respPc = "panicked"
    THEN /\ readerPc' = "panicked"
         /\ UNCHANGED <<readerEv, respQ>>
    ELSE IF NeedsResponse(rec.mask)
    THEN /\ respQ' = Append(respQ, [kind |-> "PermEvent", meta |-> rec])
         /\ UNCHANGED <<readerPc, readerEv>>
    ELSE /\ respQ' = Append(respQ, [kind |-> "NormalEvent", meta |-> rec])
         /\ UNCHANGED <<readerPc, readerEv>>

\* FanotifyEventIterator::next, then the loop body on the record it yields
ReaderNext ==
    /\ alive
    /\ readerPc = "walk"
    /\ IF read_len >= MetadataLen
       THEN LET ptr == IF start_ptr = <<>> THEN 0 ELSE start_ptr[1]
            IN \E rec \in Deref(msg_buffer, ptr) :
                 IF rec.event_len >= MetadataLen /\ rec.event_len <= read_len
                 THEN /\ read_len' = read_len - rec.event_len
                      /\ start_ptr' = <<PtrAdd(ptr, rec.event_len)>>
                      /\ ReaderHandle(rec)
                 ELSE /\ readerPc' = "poll"
                      /\ start_ptr' = <<ptr>>
                      /\ UNCHANGED <<read_len, readerEv, respQ>>
       ELSE /\ readerPc' = "poll"
            /\ UNCHANGED <<read_len, start_ptr, readerEv, respQ>>
    /\ UNCHANGED <<cfgVars, envVars, msg_buffer, write_lock, respPc, respEv,
                   respResult, workerVars, cache, dbVars, postVars, histVars,
                   ctlVars, auxVars>>

\* FanotifyEventIterator::next over the buffer of one read, on its own:
\* walkOut collects the items it returns, None ends the walk
WalkNext ==
    /\ walkPc = "walk"
    /\ IF walkLen >= MetadataLen
       THEN LET ptr == IF walkPtr = <<>> THEN 0 ELSE walkPtr[1]
            IN \E rec \in Deref(walkBuf, ptr) :
                 IF rec.event_len >= MetadataLen /\ rec.event_len <= walkLen
                 THEN /\ walkLen' = walkLen - rec.event_len
                      /\ walkPtr' = <<PtrAdd(ptr, rec.event_len)>>
                      /\ walkOut' = Append(walkOut, rec)
                      /\ UNCHANGED walkPc
                 ELSE /\ walkPc' = "done"
                      /\ walkPtr' = <<ptr>>
                      /\ UNCHANGED <<walkLen, walkOut>>
       ELSE /\ walkPc' = "done"
            /\ UNCHANGED <<walkLen, walkPtr, walkOut>>
    /\ UNCHANGED <<cfgVars, envVars, readerVars, write_lock, respVars,
                   workerVars, cache, dbVars, postVars, histVars, ctlVars,
                   faults, dbState, watches, qops, walkBuf, rdVars>>

\* let _lock = write_lock.lock().unwrap(): the unwrap panics when the other
\* thread panicked with the lock held
ReaderLock ==
    /\ alive
    /\ readerPc = "lock"
    /\ write_lock \in {"free", "poisoned"}
    /\ IF write_lock = "poisoned"
       THEN readerPc' = "panicked" /\ UNCHANGED write_lock
       ELSE write_lock' = "reader" /\ readerPc' = "write"
    /\ UNCHANGED <<cfgVars, envVars, msg_buffer, read_len, start_ptr, readerEv,
                   respVars, workerVars, cache, dbVars, postVars, histVars,
                   ctlVars, auxVars>>

\* write(fanotify_fd, {fd, FAN_ALLOW}); the guard is dropped at the end of
\* the branch
ReaderWrite ==
    /\ alive
    /\ readerPc = "write"
    /\ written' = Append(written, [fd |-> readerEv.fd, response |-> "Allow",
                                   by |-> "reader"])
    /\ write_lock' = "free"
    /\ readerPc' = "walk"
    /\ UNCHANGED <<cfgVars, envVars, msg_buffer, read_len, start_ptr, readerEv,
                   respVars, workerVars, cache, dbVars, postVars, delivered,
                   invoked, cacheGets, cacheSets, lastSet, returned, ctlVars,
                   auxVars>>


\* DetectionSystem::com_pair: the caller's channel is registered under
\* next_detector_id, which is then incremented; the id registered is returned
ComPair(chs, owner) == [id |-> Len(chs), channels |-> Append(chs, owner)]

\* the two calls: start_control_server(self.detection_system.com_pair()) in
\* main, then `let (monitor_id, client_rx, client_tx) = self.com_pair()` in
\* DetectionSystem::start
ControlPair == ComPair(<<>>, "control")
MonitorPair == ComPair(ControlPair.channels, "monitor")

\* self.channels.borrow().get(&cmd.id): the channel registered under the
\* id, None for an id that is not registered
ChannelOf(id) ==
    IF id + 1 \in DOMAIN MonitorPair.channels
    THEN MonitorPair.channels[id + 1] ELSE "None"

(***************************************************************************)
(* Responder thread: MonitorResponder::start with the two callbacks that   *)
(* DetectionSystem::start hands to the monitor.                            *)
(***************************************************************************)
\* receiver.recv(); a PermEvent runs response_callback up to client_rx.recv(),
\* a NormalEvent runs event_callback; on an empty channel whose sender is
\* gone with the reader thread recv() is an Err and the arm panics
ResponderRecv ==
    /\ alive
    /\ respPc = "recv"
    /\ respQ # <<>> \/ readerPc = "panicked"
    /\ IF respQ = <<>>
       THEN /\ respPc' = "panicked"
            /\ UNCHANGED <<detQ, respEv, respQ>>
       ELSE LET event == Head(respQ)
            IN /\ IF event.kind = "PermEvent"
                  THEN /\ detQ' = Append(detQ,
                                      [kind |-> "FanotifyEventWithResponse",
                                       id |-> MonitorPair.id,
                                       meta |-> event.meta])
                       /\ respPc' = "wait"
                       /\ respEv' = event.meta
                  ELSE /\ detQ' = Append(detQ, [kind |-> "FanotifyEvent",
                                                id |-> MonitorPair.id,
                                                meta |-> event.meta])
                       /\ UNCHANGED <<respPc, respEv>>
               /\ respQ' = Tail(respQ)
    /\ UNCHANGED <<cfgVars, envVars, readerVars, write_lock, respResult,
                   clientRx, workerPc, workerCmd, waitFd, no_cache, res, hash,
                   snapshot, compare_counter, cache, dbVars, postVars,
                   histVars, ctlVars, auxVars>>

\* client_rx.recv() returns the worker's FanotifyResponse
ResponderGot ==
    /\ alive
    /\ respPc = "wait"
    /\ clientRx # <<>>
    /\ IF Head(clientRx).kind = "FanotifyResponse"
       THEN /\ respResult' = Head(clientRx).response
            /\ respPc' = "lock"
       ELSE /\ respPc' = "panicked"
            /\ UNCHANGED respResult
    /\ clientRx' = Tail(clientRx)
    /\ UNCHANGED <<cfgVars, envVars, readerVars, write_lock, respQ, respEv,
                   detQ, workerPc, workerCmd, waitFd, no_cache, res, hash,
                   snapshot, compare_counter, cache, dbVars, postVars,
                   histVars, ctlVars, auxVars>>

\* a responder that writes without taking the mutex
ResponderLock_NoMutex ==
    /\ alive
    /\ respPc = "lock"
    /\ respPc' = "write"
    /\ UNCHANGED <<cfgVars, envVars, readerVars, write_lock, respQ, respEv,
                   respResult, workerVars, cache, dbVars, postVars, histVars,
                   ctlVars, auxVars>>

\* let _lock = self.write_lock.lock().unwrap(): the unwrap panics when the
\* other thread panicked with the lock held
ResponderLock ==
    /\ alive
    /\ respPc = "lock"
    /\ write_lock \in {"free", "poisoned"}
    /\ IF write_lock = "poisoned"
       THEN respPc' = "panicked" /\ UNCHANGED write_lock
       ELSE write_lock' = "responder" /\ respPc' = "write"
    /\ UNCHANGED <<cfgVars, envVars, readerVars, respQ, respEv, respResult,
                   workerVars, cache, dbVars, postVars, histVars, ctlVars,
                   auxVars>>

\* write(self.fd, {meta.fd, result}); the guard is dropped at the end of
\* the match arm
ResponderWrite ==
    /\ alive
    /\ respPc = "write"
    /\ written' = Append(written, [fd |-> respEv.fd, response |-> respResult,
                                   by |-> "responder"])
    /\ write_lock' = "free"
    /\ respPc' = "recv"
    /\ UNCHANGED <<cfgVars, envVars, readerVars, respQ, respEv, respResult,
                   workerVars, cache, dbVars, postVars, delivered, invoked,
                   cacheGets, cacheSets, lastSet, returned, ctlVars, auxVars>>

(***************************************************************************)
(* The start of the monitor thread: FilesystemMonitor::start.              *)
(***************************************************************************)
\* what monitor_mark returns: Ok or the error of the errno
MarkResults == {"ok", "InvalidValue", "NotExists"}

\* the watches the `for` loop gets to: the closure of unwrap_or_else panics
\* for InvalidValue, with either mask, and returns for every other error
RECURSIVE Marked(_)
Marked(ws) ==
    IF ws = <<>> THEN <<>>
    ELSE IF Head(ws).err = "InvalidValue" THEN <<Head(ws)>>
    ELSE <<Head(ws)>> \o Marked(Tail(ws))

\* the rejections among them, as the history keeps them
Rejections(ws) ==
    LET rej == SelectSeq(ws, LAMBDA w : w.err # "ok")
    IN [i \in 1..Len(rej) |->
          [kind |-> "mark", by |-> rej[i].err, at |-> 0,
           perm |-> NeedsResponse(rej[i].mask)]]

\* FilesystemMonitor::start in the monitor thread: the marks, then
\* monitor_listen, which spawns the responder and enters its loop
MonitorStart ==
    /\ alive
    /\ readerPc = "start"
    /\ LET done == Marked(watches)
       IN /\ faults' = faults \o Rejections(done)
          /\ IF done # <<>> /\ done[Len(done)].err = "InvalidValue"
             THEN readerPc' = "panicked" /\ UNCHANGED respPc
             ELSE readerPc' = "poll" /\ respPc' = "recv"
    /\ watches' = <<>>
    /\ UNCHANGED <<cfgVars, envVars, msg_buffer, read_len, start_ptr, readerEv,
                   write_lock, respQ, respEv, respResult, workerVars, cache,
                   dbVars, postVars, histVars, ctlVars, dbState, qops,
                   walkVars, rdVars>>

(***************************************************************************)
(* Failures of the notification channel.                                   *)
(***************************************************************************)
\* read() returns -1 with an errno other than EINTR: `if read_len > 0` is
\* false, nothing else looks at the value, and the loop polls again
ReaderReadFails ==
    /\ alive
    /\ readerPc = "poll"
    /\ Len(faults) < MaxFaults
    /\ faults' = Append(faults, [kind |-> "read", by |-> "reader",
                                         at |-> Len(written)])
    /\ UNCHANGED <<cfgVars, envVars, readerVars, write_lock, respVars,
                   workerVars, cache, dbVars, postVars, histVars, ctlVars,
                   dbState, watches, qops, walkVars, rdVars>>

\* the write of the fast path returns -1: panic!("response write failed")
\* in the monitor thread, with the write lock held
ReaderWriteFails ==
    /\ alive
    /\ readerPc = "write"
    /\ Len(faults) < MaxFaults
    /\ faults' = Append(faults, [kind |-> "write", by |-> "reader",
                                         at |-> Len(written)])
    /\ readerPc' = "panicked"
    /\ write_lock' = "poisoned"
    /\ UNCHANGED <<cfgVars, envVars, msg_buffer, read_len, start_ptr, readerEv,
                   respVars, workerVars, cache, dbVars, postVars, histVars,
                   ctlVars, dbState, watches, qops, walkVars, rdVars>>

\* the write of the responder returns -1: panic!("response write failed")
\* in the MonitorResponder thread, with the write lock held
ResponderWriteFails ==
    /\ alive
    /\ respPc = "write"
    /\ Len(faults) < MaxFaults
    /\ faults' = Append(faults, [kind |-> "write", by |-> "responder",
                                         at |-> Len(written)])
    /\ respPc' = "panicked"
    /\ write_lock' = "poisoned"
    /\ UNCHANGED <<cfgVars, envVars, readerVars, respQ, respEv, respResult,
                   workerVars, cache, dbVars, postVars, histVars, ctlVars,
                   dbState, watches, qops, walkVars, rdVars>>

(***************************************************************************)
(* Decision worker: the loop of DetectionSystem::start (main thread) and   *)
(* detector_callback.                                                      *)
(***************************************************************************)
\* a worker that takes the newest command of its queue
WorkerRecv_Newest ==
    /\ alive
    /\ workerPc = "recv"
    /\ detQ # <<>>
    /\ workerCmd' = detQ[Len(detQ)]
    /\ detQ' = SubSeq(detQ, 1, Len(detQ) - 1)
    /\ workerPc' = "callback"
    /\ UNCHANGED <<cfgVars, envVars, readerVars, write_lock, respVars,
                   clientRx, waitFd, no_cache, res, hash, snapshot,
                   compare_counter, cache, dbVars, postVars, histVars,
                   ctlVars, auxVars>>

\* self.detector_rx.recv()
WorkerRecv ==
    /\ alive
    /\ workerPc = "recv"
    /\ detQ # <<>>
    /\ workerCmd' = Head(detQ)
    /\ detQ' = Tail(detQ)
    /\ workerPc' = "callback"
    /\ UNCHANGED <<cfgVars, envVars, readerVars, write_lock, respVars,
                   clientRx, waitFd, no_cache, res, hash, snapshot,
                   compare_counter, cache, dbVars, postVars, histVars,
                   ctlVars, auxVars>>

\* a file_detected_action that spawns the thread twice
Dispatch_Twice(q, fd, filename) ==
    q \o <<[fd |-> fd, path |-> filename, state |-> "spawned", at |-> "none"],
           [fd |-> fd, path |-> filename, state |-> "spawned", at |-> "none"]>>

\* file_detected_action: thread::spawn of the post-detection actions
Dispatch(q, fd, filename) ==
    Append(q, [fd |-> fd, path |-> filename, state |-> "spawned",
               at |-> "none"])

\* self.channels.borrow().get(&id).unwrap().send(result): the result goes
\* to the channel registered under the id; the unwrap panics when there is
\* none
Send(id, result) ==
    /\ clientRx' = IF ChannelOf(id) = "monitor"
                   THEN Append(clientRx, result) ELSE clientRx
    /\ ctlRx' = IF ChannelOf(id) = "control"
                THEN Append(ctlRx, result) ELSE ctlRx
    /\ alive' = (ChannelOf(id) # "None")
    /\ workerPc' = IF ChannelOf(id) = "None" THEN "panicked" ELSE "recv"

\* detector_callback returns; for FanotifyEventWithResponse the loop sends
\* CommandResult::FanotifyResponse on the channel of cmd.id (began and ver
\* note how many mark_update calls had completed when the verdict was
\* looked up in the cache or the detection began, and at the return); file
\* tells whether the File made of the event's fd exists: it is dropped, and
\* the fd closed, when detector_callback returns
Return(verdict, result, cached, stat, after, file) ==
    /\ returned' = returned \cup {[fd |-> workerCmd.meta.fd,
                                   closed |-> file,
                                   verdict |-> verdict, result |-> result,
                                   cached |-> cached, stat |-> stat,
                                   after |-> after, kind |-> workerCmd.kind,
                                   began |-> IF cached THEN version
                                             ELSE startVersion,
                                   ver |-> version]}
    /\ IF workerCmd.kind = "FanotifyEventWithResponse"
       THEN Send(workerCmd.id, [kind |-> "FanotifyResponse",
                                response |-> verdict])
       ELSE /\ workerPc' = "recv"
            /\ UNCHANGED <<clientRx, ctlRx, alive>>

\* the worker panics: the main thread ends and with it the process
WorkerPanics ==
    /\ alive' = FALSE
    /\ workerPc' = "panicked"

\* StatBasedCacheData::from(event_meta), which get_result_for calls once it
\* has found an entry under the key and set_result_for calls always:
\* `if stat_res < 0 { panic!("stat failed") }`
StatPanics(called, file) == called /\ file.statErr

\* detector_callback up to check_reader: the pid test and the cache lookup
CallbackEnter ==
    /\ alive
    /\ workerPc = "callback"
    /\ workerCmd.kind \in {"FanotifyEvent", "FanotifyEventWithResponse"}
    /\ LET e == workerCmd.meta
           key == Filename(e)
           stat == files[e.path].stat
           hit == CacheGet(cacheEnabled, cache, key, stat)
           last == EntryOf(lastSet, key)
           get == [fd |-> e.fd, hit |-> hit, before |-> EntryOf(cache, key),
                   want |-> IF last # <<>> /\ last[1].data = stat
                            THEN last[1].result ELSE "none",
                   stale |-> last # <<>> /\ last[1].data # stat]
       IN IF e.pid = "daemon"
          THEN /\ Return("Allow", "none", FALSE, stat, <<>>, FALSE)
               /\ UNCHANGED <<cacheGets, spawned>>
          ELSE IF e.named /\ StatPanics(cacheEnabled /\ key \in DOMAIN cache,
                                        files[e.path])
               THEN /\ WorkerPanics
                    /\ UNCHANGED <<returned, clientRx, ctlRx, spawned,
                                   cacheGets>>
          ELSE IF e.named
               THEN /\ cacheGets' = cacheGets \cup {get}
                    /\ IF hit = "none"
                       THEN /\ workerPc' = "reading"
                            /\ UNCHANGED <<returned, clientRx, ctlRx,
                                           spawned, alive>>
                       ELSE /\ Return(IF hit = "NoMatch" THEN "Allow" ELSE "Deny",
                                      hit, TRUE, stat, EntryOf(cache, key),
                                      TRUE)
                            /\ spawned' = IF hit = "NoMatch" THEN spawned
                                          ELSE Dispatch(spawned, e.fd, key)
               ELSE /\ workerPc' = "reading"
                    /\ UNCHANGED <<returned, clientRx, ctlRx, spawned,
                                   cacheGets, alive>>
    /\ UNCHANGED <<cfgVars, files, touches, kernelQ, nextFd, readerVars,
                   write_lock, respVars, detQ,
                   workerCmd, waitFd, no_cache, res, hash, snapshot,
                   compare_counter, cache, dbVars, quarantineDir, delivered,
                   written, invoked, cacheSets, lastSet,
                   poisoned, adds, acts, socket, ctlPc, ctlConns, ctlCur,
                   conns, ctlOut, conflictAt, auxVars>>

\* a file access of the daemon's own while the detection runs: the kernel
\* holds the access until the permission event it raises is answered
WorkerOwnAccess ==
    /\ alive
    /\ workerPc = "reading"
    /\ nextFd <= MaxEvents
    /\ \E path \in Paths :
          /\ files[path].exists
          /\ kernelQ' = Append(kernelQ,
                               NewEvent("daemon", {"OPEN_PERM"}, path, TRUE))
    /\ waitFd' = nextFd
    /\ nextFd' = nextFd + 1
    /\ workerPc' = "blocked"
    /\ UNCHANGED <<cfgVars, files, touches, alive, readerVars, write_lock,
                   respVars, detQ, clientRx, workerCmd, no_cache, res, hash,
                   snapshot, compare_counter, cache, dbVars, postVars,
                   histVars, ctlVars, auxVars>>

\* the access proceeds once a response for its event has been written
WorkerUnblock ==
    /\ alive
    /\ workerPc = "blocked"
    /\ \E w \in Range(written) : w.fd = waitFd
    /\ workerPc' = "reading"
    /\ UNCHANGED <<cfgVars, envVars, readerVars, write_lock, respVars, detQ,
                   clientRx, workerCmd, waitFd, no_cache, res, hash, snapshot,
                   compare_counter, cache, dbVars, postVars, histVars,
                   ctlVars, auxVars>>

\* AbstractHashBasedDetector::check_reader up to do_detect: read the fd,
\* finalize, get_hash; res holds what check_reader returns, "Err" for a
\* read error and for a hash that cannot be computed
CheckReader ==
    /\ alive
    /\ workerPc = "reading"
    /\ LET e == workerCmd.meta
           f == files[e.path]
       IN /\ invoked' = invoked \cup {e.fd}
          /\ IF f.readErr \/ f.content = 0
             THEN /\ no_cache' = FALSE
                  /\ res' = "Err"
                  /\ workerPc' = "finish"
                  /\ UNCHANGED <<hash, startVersion>>
             ELSE /\ no_cache' = FALSE
                  /\ res' = "NoMatch"
                  /\ hash' = f.content
                  /\ startVersion' = version
                  /\ workerPc' = "get_hashes"
    /\ compare_counter' = 0
    /\ UNCHANGED <<cfgVars, envVars, readerVars, write_lock, respVars, detQ,
                   clientRx, workerCmd, waitFd, snapshot, cache, dbFile,
                   updates, inotifyQ, holder, dbObject, objLock, changed,
                   hashes, watcherPc, loadedObj, stored, version, loadedVersion,
                   postVars, delivered, written, cacheGets, cacheSets,
                   lastSet, returned, ctlVars, auxVars>>

\* variant: the dirty bit never seen
has_changed_Never == FALSE

\* SystemDatabaseObject::has_changed
has_changed == changed

\* get_hashes: if self.sdo.has_changed()
GetHashes ==
    /\ alive
    /\ workerPc = "get_hashes"
    /\ workerPc' = IF has_changed THEN "reload" ELSE "index"
    /\ UNCHANGED <<cfgVars, envVars, readerVars, write_lock, respVars, detQ,
                   clientRx, workerCmd, waitFd, no_cache, res, hash, snapshot,
                   compare_counter, cache, dbVars, postVars, histVars,
                   ctlVars, auxVars>>

\* reload: self.hashes.clear(); self.sdo.object() stores changed = false
ReloadClear ==
    /\ alive
    /\ workerPc = "reload"
    /\ hashes' = BuildHashes(<<>>)
    /\ changed' = FALSE
    /\ workerPc' = "clone"
    /\ UNCHANGED <<cfgVars, envVars, readerVars, write_lock, respVars, detQ,
                   clientRx, workerCmd, waitFd, no_cache, res, hash, snapshot,
                   compare_counter, cache, dbFile, updates, inotifyQ, holder,
                   dbObject, objLock, watcherPc, loadedObj, stored, version,
                   loadedVersion, startVersion, postVars, histVars, ctlVars,
                   auxVars>>

\* reload: .lock().unwrap().clone(), from_object, and the loop that fills
\* the buckets
ReloadClone ==
    /\ alive
    /\ workerPc = "clone"
    /\ objLock = "free"
    /\ hashes' = BuildHashes(dbObject)
    /\ loadedObj' = dbObject
    /\ loadedVersion' = version
    /\ workerPc' = "index"
    /\ UNCHANGED <<cfgVars, envVars, readerVars, write_lock, respVars, detQ,
                   clientRx, workerCmd, waitFd, no_cache, res, hash, snapshot,
                   compare_counter, cache, dbFile, updates, inotifyQ, holder,
                   dbObject, objLock, changed, watcherPc, stored, version,
                   startVersion, postVars, histVars, ctlVars, auxVars>>

\* get_hashes: self.hashes[&0u8].as_slice(); indexing a HashMap with a key
\* it does not hold panics, and a panic of the main thread ends the process
\* (reload indexes the same key inside debug!, which evaluates it only when
\* debug logging is on; the process then ends one step earlier)
GetHashesIndex ==
    /\ alive
    /\ workerPc = "index"
    /\ IF 0 \in DOMAIN hashes
       THEN /\ snapshot' = hashes[0]
            /\ workerPc' = "compare"
            /\ alive' = alive
       ELSE /\ alive' = FALSE
            /\ workerPc' = "panicked"
            /\ snapshot' = snapshot
    /\ UNCHANGED <<cfgVars, files, touches, kernelQ, nextFd, readerVars,
                   write_lock, respVars, detQ, clientRx, workerCmd, waitFd,
                   no_cache, res, hash, compare_counter, cache, dbVars,
                   postVars, histVars, ctlVars, auxVars>>

\* a loop that asks the database for its hashes again at every iteration
CompareStep_AsksAgain ==
    /\ alive
    /\ workerPc = "compare"
    /\ snapshot' = SelectColor(dbObject, 0)
    /\ IF compare_counter < Len(snapshot')
       THEN LET c == CompareFn(format, threshold, hash,
                               snapshot'[compare_counter + 1])
            IN /\ compare_counter' = compare_counter + 1
               /\ alive' = (c # "panic")
               /\ res' = IF c = "match" THEN "Match" ELSE res
               /\ workerPc' = IF c = "panic" THEN "panicked"
                              ELSE IF c = "match" THEN "finish" ELSE "compare"
       ELSE /\ workerPc' = "finish"
            /\ UNCHANGED <<compare_counter, alive, res>>
    /\ UNCHANGED <<cfgVars, files, touches, kernelQ, nextFd, readerVars,
                   write_lock, respVars, detQ, clientRx, workerCmd, waitFd,
                   no_cache, hash, cache, dbVars, postVars,
                   histVars, ctlVars, auxVars>>

\* one iteration of the loop of CompareAgainstAllDetector::do_detect, or its
\* end
CompareStep ==
    /\ alive
    /\ workerPc = "compare"
    /\ IF compare_counter < Len(snapshot)
       THEN LET c == CompareFn(format, threshold, hash,
                               snapshot[compare_counter + 1])
            IN /\ compare_counter' = compare_counter + 1
               /\ alive' = (c # "panic")
               /\ res' = IF c = "match" THEN "Match" ELSE res
               /\ workerPc' = IF c = "panic" THEN "panicked"
                              ELSE IF c = "match" THEN "finish" ELSE "compare"
       ELSE /\ workerPc' = "finish"
            /\ UNCHANGED <<compare_counter, alive, res>>
    /\ UNCHANGED <<cfgVars, files, touches, kernelQ, nextFd, readerVars,
                   write_lock, respVars, detQ, clientRx, workerCmd, waitFd,
                   no_cache, hash, snapshot, cache, dbVars, postVars,
                   histVars, ctlVars, auxVars>>

\* detector_callback after check_reader: the unwrap_or_else,
\* set_result_for unless no_cache, file_detected_action on a Match, and
\* the verdict
CallbackFinish ==
    /\ alive
    /\ workerPc = "finish"
    /\ LET e == workerCmd.meta
           key == Filename(e)
           stat == files[e.path].stat
           u == UnwrapOrElse(res)
           entry == [data |-> stat, result |-> u.res]
       IN /\ no_cache' = u.no_cache
          /\ res' = u.res
          /\ IF StatPanics(~u.no_cache /\ cacheEnabled, files[e.path])
             THEN /\ WorkerPanics
                  /\ UNCHANGED <<cache, cacheSets, lastSet, spawned,
                                 returned, clientRx, ctlRx>>
             ELSE /\ IF u.no_cache
                     THEN UNCHANGED <<cache, cacheSets, lastSet>>
                     ELSE /\ cache' = CacheSet(cacheEnabled, cache, key, stat,
                                               u.res)
                          /\ cacheSets' = cacheSets \cup {e.fd}
                          /\ lastSet' = [k \in DOMAIN lastSet \cup {key} |->
                                           IF k = key THEN entry
                                           ELSE lastSet[k]]
                  /\ spawned' = IF u.res = "Match"
                                THEN Dispatch(spawned, e.fd, key) ELSE spawned
                  /\ Return(Verdict(u.res),
                            IF res = "Err" THEN "error" ELSE res,
                            FALSE, stat, EntryOf(cache', key), TRUE)
    /\ UNCHANGED <<cfgVars, files, touches, kernelQ, nextFd, readerVars,
                   write_lock, respVars, detQ,
                   workerCmd, waitFd, hash, snapshot, compare_counter,
                   dbVars, quarantineDir, delivered, written, invoked,
                   cacheGets,
                   poisoned, adds, acts, socket, ctlPc, ctlConns, ctlCur,
                   conns, ctlOut, conflictAt, auxVars>>


(***************************************************************************)
(* AbstractHashBasedDetector::check_reader and check_bytes on their own.   *)
(* Byte strings are kept as runs: <<[b |-> byte, n |-> count], ...>>.      *)
(***************************************************************************)
RECURSIVE Size(_)
Size(bytes) ==
    IF bytes = <<>> THEN 0 ELSE Head(bytes).n + Size(Tail(bytes))

\* &bytes[..k] and &bytes[k..]
RECURSIVE TakeBytes(_, _)
TakeBytes(bytes, k) ==
    IF k = 0 \/ bytes = <<>> THEN <<>>
    ELSE IF Head(bytes).n <= k
    THEN <<Head(bytes)>> \o TakeBytes(Tail(bytes), k - Head(bytes).n)
    ELSE <<[b |-> Head(bytes).b, n |-> k]>>

RECURSIVE DropBytes(_, _)
DropBytes(bytes, k) ==
    IF k = 0 \/ bytes = <<>> THEN bytes
    ELSE IF Head(bytes).n <= k
    THEN DropBytes(Tail(bytes), k - Head(bytes).n)
    ELSE <<[b |-> Head(bytes).b, n |-> Head(bytes).n - k]>> \o Tail(bytes)

\* the same bytes with adjacent runs of one byte joined
RECURSIVE Norm(_)
Norm(bytes) ==
    IF Len(bytes) < 2 THEN bytes
    ELSE IF bytes[1].b = bytes[2].b
    THEN Norm(<<[b |-> bytes[1].b, n |-> bytes[1].n + bytes[2].n]>>
              \o SubSeq(bytes, 3, Len(bytes)))
    ELSE <<bytes[1]>> \o Norm(Tail(bytes))

\* `tlsh.update(&buffer)`: the slice handed to update is the whole buffer
Chunk(buf, k) == buf

\* HashAlg::update: the algorithm consumes the slice after what it has
Update(state, data) == Norm(state \o data)

\* HashAlg::finalize and get_hash: a digest of everything consumed, here
\* its length and the sum of its bytes modulo 256
RECURSIVE Sum(_)
Sum(bytes) ==
    IF bytes = <<>> THEN 0
    ELSE (Head(bytes).b * Head(bytes).n + Sum(Tail(bytes))) % 256

GetHash(state) == [length |-> Size(state), checksum |-> Sum(state)]

\* check_bytes up to do_detect: one update with all the bytes
CheckBytes(input_bytes) == GetHash(Update(<<>>, input_bytes))

\* one turn of `while input.read(&mut buffer)? > 0 { tlsh.update(&buffer) }`:
\* the read of a file fills the buffer from its start with the next bytes,
\* as many as are left up to the buffer's size, and returns their number;
\* 0 ends the loop
ReadLoop ==
    /\ rdPc = "read"
    /\ LET rest == DropBytes(input.content, input.pos)
           k == Min(Size(rest), READ_BUFFER_SIZE)
       IN IF k > 0
          THEN /\ buffer' = Norm(TakeBytes(rest, k) \o DropBytes(buffer, k))
               /\ fed' = Update(fed, Chunk(buffer', k))
               /\ input' = [input EXCEPT !.pos = @ + k]
               /\ UNCHANGED rdPc
          ELSE /\ rdPc' = "done"
               /\ UNCHANGED <<input, buffer, fed>>
    /\ UNCHANGED <<cfgVars, envVars, readerVars, write_lock, respVars,
                   workerVars, cache, dbVars, postVars, histVars, ctlVars,
                   faults, dbState, watches, qops, walkVars>>

(***************************************************************************)
(* Post-detection thread: the closure spawned by file_detected_action.     *)
(***************************************************************************)
\* variant: a quarantine without its mutex
QuarantineHeld_Never == FALSE

\* the Mutex<Quarantine> is held by a post-detection thread that is inside
\* add_file, between its rename and the write of the sidecar; lock() of
\* another thread blocks meanwhile
QuarantineHeld ==
    \E i \in 1..Len(spawned) : spawned[i].state = "moving"

\* quarantine.lock().unwrap().add_file(&filename) when quarantine is
\* enabled: the unwrap panics on a poisoned mutex; add_file does nothing for
\* a path that does not exist, else the rename either moves the file or
\* fails, and the expect() then panics this thread while it holds the mutex;
\* "at" records which of the two calls a panicked thread died in
PostDetection ==
    /\ alive
    /\ \E i \in 1..Len(spawned) :
          /\ spawned[i].state = "spawned"
          /\ LET path == spawned[i].path
                 present == path \in Paths /\ files[path].exists
             IN \E renamed \in BOOLEAN, id \in NewV4(quarantineDir, adds) :
                  IF quarantineEnabled /\ poisoned
                  THEN /\ spawned' = [spawned EXCEPT ![i].state = "panicked",
                                                      ![i].at = "lock"]
                       /\ UNCHANGED <<files, quarantineDir, poisoned, adds>>
                  ELSE IF quarantineEnabled /\ present
                  THEN IF renamed
                       THEN /\ files' = [files EXCEPT ![path].exists = FALSE]
                            /\ quarantineDir' =
                                  AddFile(quarantineDir, path, files[path], id)
                            /\ adds' = adds \cup
                                  {[n |-> Cardinality(adds) + 1, id |-> id,
                                    path |-> path, file |-> files[path],
                                    names |-> NewV4(quarantineDir, adds),
                                    payload |-> quarantineDir'.payloads[id],
                                    sidecar |-> quarantineDir'.sidecars[id],
                                    present |-> files'[path].exists]}
                            /\ spawned' = [spawned EXCEPT ![i].state = "done"]
                            /\ UNCHANGED poisoned
                       ELSE /\ spawned' = [spawned EXCEPT
                                              ![i].state = "panicked",
                                              ![i].at = "rename"]
                            /\ poisoned' = TRUE
                            /\ UNCHANGED <<files, quarantineDir, adds>>
                  ELSE /\ spawned' = [spawned EXCEPT ![i].state = "done"]
                       /\ UNCHANGED <<files, quarantineDir, poisoned, adds>>
    /\ UNCHANGED <<cfgVars, touches, kernelQ, nextFd, alive, readerVars,
                   write_lock, respVars, workerVars, cache, dbVars, histVars,
                   acts, socket, ctlPc, ctlConns, ctlCur, ctlRx, conns,
                   ctlOut, conflictAt,
                   auxVars>>

\* the same closure step by step. First quarantine.lock().unwrap() and
\* add_file up to its rename and set_permissions: the payload is in the
\* directory under its new name, the sidecar is not written yet, the
\* thread holds the mutex
AddFileMove ==
    /\ alive
    /\ quarantineEnabled => ~QuarantineHeld
    /\ \E i \in 1..Len(spawned) :
          /\ spawned[i].state = "spawned"
          /\ LET path == spawned[i].path
                 present == path \in Paths /\ files[path].exists
             IN \E renamed \in BOOLEAN, id \in NewV4(quarantineDir, adds) :
                  IF quarantineEnabled /\ poisoned
                  THEN /\ spawned' = [spawned EXCEPT ![i].state = "panicked",
                                                      ![i].at = "lock"]
                       /\ UNCHANGED <<files, quarantineDir, poisoned>>
                  ELSE IF quarantineEnabled /\ present
                  THEN IF renamed
                       THEN /\ files' = [files EXCEPT ![path].exists = FALSE]
                            /\ quarantineDir' =
                                  [quarantineDir EXCEPT !.payloads =
                                      AddFile(quarantineDir, path, files[path],
                                              id).payloads]
                            /\ spawned' =
                                  [spawned EXCEPT ![i] =
                                      [fd |-> spawned[i].fd, path |-> path,
                                       state |-> "moving", at |-> "none",
                                       id |-> id, file |-> files[path],
                                       names |-> NewV4(quarantineDir, adds)]]
                            /\ UNCHANGED poisoned
                       ELSE /\ spawned' = [spawned EXCEPT
                                              ![i].state = "panicked",
                                              ![i].at = "rename"]
                            /\ poisoned' = TRUE
                            /\ UNCHANGED <<files, quarantineDir>>
                  ELSE /\ spawned' = [spawned EXCEPT ![i].state = "done"]
                       /\ UNCHANGED <<files, quarantineDir, poisoned>>
    /\ UNCHANGED <<cfgVars, touches, kernelQ, nextFd, alive, readerVars,
                   write_lock, respVars, workerVars, cache, dbVars, histVars,
                   adds, acts, socket, ctlPc, ctlConns, ctlCur, ctlRx, conns,
                   ctlOut, conflictAt, auxVars>>

\* then std::fs::write of the sidecar and its set_permissions, after which
\* add_file returns and the guard is dropped; a failed write panics in
\* expect() with the mutex held
AddFileInfo ==
    /\ alive
    /\ \E i \in 1..Len(spawned), wrote \in BOOLEAN :
          /\ spawned[i].state = "moving"
          /\ LET t == spawned[i]
                 dir == AddFile(quarantineDir, t.path, t.file, t.id)
             IN IF wrote
                THEN /\ quarantineDir' =
                           [quarantineDir EXCEPT !.sidecars =
                               Put(@, t.id, dir.sidecars[t.id])]
                     /\ adds' = adds \cup
                           {[n |-> Cardinality(adds) + 1, id |-> t.id,
                             path |-> t.path, file |-> t.file,
                             names |-> t.names,
                             payload |-> quarantineDir'.payloads[t.id],
                             sidecar |-> quarantineDir'.sidecars[t.id],
                             present |-> files[t.path].exists]}
                     /\ spawned' = [spawned EXCEPT ![i] =
                                       [fd |-> t.fd, path |-> t.path,
                                        state |-> "done", at |-> "none"]]
                     /\ UNCHANGED poisoned
                ELSE /\ spawned' = [spawned EXCEPT ![i] =
                                       [fd |-> t.fd, path |-> t.path,
                                        state |-> "panicked", at |-> "write"]]
                     /\ poisoned' = TRUE
                     /\ UNCHANGED <<quarantineDir, adds>>
    /\ UNCHANGED <<cfgVars, envVars, readerVars, write_lock, respVars,
                   workerVars, cache, dbVars, histVars, acts, socket, ctlPc,
                   ctlConns, ctlCur, ctlRx, conns, ctlOut, conflictAt,
                   auxVars>>

\* the worker sends a CommandResult on the channel of cmd.id
Reply(result) == Send(workerCmd.id, result)

\* the permission events queued for the worker
Waiting ==
    {detQ[i].meta.fd : i \in {j \in 1..Len(detQ) :
                                detQ[j].kind = "FanotifyEventWithResponse"}}

\* the worker holds the quarantine mutex and runs a call of Quarantine
QuarantineCall(op) ==
    qops' = qops \cup {[op |-> op, waiting |-> Waiting,
                        before |-> quarantineDir, after |-> quarantineDir']}

\* Action::QueryQuarantine
QueryQuarantine ==
    /\ alive
    /\ workerPc = "callback"
    /\ workerCmd.kind = "QueryQuarantine"
    /\ quarantineEnabled => ~QuarantineHeld
    /\ IF ~quarantineEnabled
       THEN /\ Reply([kind |-> "QuarantineEntries", entries |-> <<>>])
            /\ UNCHANGED <<quarantineDir, qops>>
       ELSE IF poisoned
       THEN /\ WorkerPanics
            /\ UNCHANGED <<quarantineDir, clientRx, ctlRx, qops>>
       ELSE IF ~ScanDir(quarantineDir).ok
       THEN /\ WorkerPanics
            /\ quarantineDir' = CleanDir(quarantineDir)
            /\ QuarantineCall("list")
            /\ UNCHANGED <<clientRx, ctlRx>>
       ELSE /\ quarantineDir' = CleanDir(quarantineDir)
            /\ QuarantineCall("list")
            /\ Reply([kind |-> "QuarantineEntries",
                      entries |-> GetEntries(quarantineDir)])
    /\ UNCHANGED <<cfgVars, files, touches, kernelQ, nextFd, readerVars,
                   write_lock, respVars, detQ, workerCmd, waitFd,
                   no_cache, res, hash, snapshot, compare_counter, cache,
                   dbVars, spawned, histVars, poisoned, adds, acts, socket,
                   ctlPc, ctlConns, ctlCur, conns, ctlOut, conflictAt,
                   faults, dbState, watches, walkVars, rdVars>>

\* what an index or a name designates: for an index the payload listed at
\* that index, for a name the payloads with that original path
Designated(dir, e) ==
    LET es == GetStoredEntries(dir)
    IN IF e \in DOMAIN Usize
       THEN {es[i].id : i \in {Usize[e] + 1} \cap (1..Len(es))}
       ELSE {es[i].id : i \in {j \in 1..Len(es) :
                                  es[j].info.original_path = e}}

\* the record of a restore_entry or remove_entry call: the payload it
\* worked on, the directory before and after, the file at the original
\* path before and after, and whether the call returned or panicked
Act(op, e, id, was, file, outcome) ==
    [op |-> op, arg |-> e, designated |-> Designated(quarantineDir, e),
     id |-> id, before |-> CleanDir(quarantineDir), after |-> quarantineDir',
     was |-> was, file |-> file, outcome |-> outcome]

\* Action::RestoreQuarantineEntry(e): restore_entry renames the payload to
\* the original path, sets its mode and removes the sidecar; the rename
\* fails when the parent directory is gone, and the expect() panics
RestoreQuarantineEntry ==
    /\ alive
    /\ workerPc = "callback"
    /\ workerCmd.kind = "RestoreQuarantineEntry"
    /\ quarantineEnabled => ~QuarantineHeld
    /\ LET e == workerCmd.arg
           entry == Lookup(quarantineDir, e)
           es == GetStoredEntries(quarantineDir)
           i == FindByInfo(es, entry[1])
           id == es[i].id
           path == es[i].info.original_path
       IN IF ~quarantineEnabled
          THEN /\ Reply([kind |-> "QuarantineAction", ok |-> FALSE])
               /\ UNCHANGED <<quarantineDir, files, acts, poisoned, qops>>
          ELSE IF poisoned
          THEN /\ WorkerPanics
               /\ UNCHANGED <<quarantineDir, files, acts, clientRx, ctlRx,
                              poisoned, qops>>
          ELSE IF ~ScanDir(quarantineDir).ok
          THEN /\ WorkerPanics
               /\ quarantineDir' = CleanDir(quarantineDir)
               /\ QuarantineCall("list")
               /\ UNCHANGED <<files, acts, clientRx, ctlRx, poisoned>>
          ELSE IF entry = <<>>
          THEN /\ quarantineDir' = CleanDir(quarantineDir)
               /\ QuarantineCall("list")
               /\ Reply([kind |-> "QuarantineAction", ok |-> FALSE])
               /\ UNCHANGED <<files, acts, poisoned>>
          ELSE IF ~files[path].parent
          THEN /\ quarantineDir' = CleanDir(quarantineDir)
               /\ QuarantineCall("restore")
               /\ WorkerPanics
               /\ poisoned' = TRUE
               /\ acts' = Append(acts, Act("restore", e, id, files[path],
                                           files[path], "panic"))
               /\ UNCHANGED <<files, clientRx, ctlRx>>
          ELSE /\ files' = [files EXCEPT ![path] =
                               Restored(quarantineDir.payloads[id],
                                        es[i].info)]
               /\ quarantineDir' =
                     [payloads |-> Drop(CleanDir(quarantineDir).payloads, id),
                      sidecars |-> Drop(CleanDir(quarantineDir).sidecars, id)]
               /\ acts' = Append(acts, Act("restore", e, id, files[path],
                                        files'[path], "done"))
               /\ QuarantineCall("restore")
               /\ Reply([kind |-> "QuarantineAction", ok |-> TRUE])
               /\ UNCHANGED poisoned
    /\ UNCHANGED <<cfgVars, touches, kernelQ, nextFd, readerVars,
                   write_lock, respVars, detQ, workerCmd, waitFd,
                   no_cache, res, hash, snapshot, compare_counter, cache,
                   dbVars, spawned, histVars, adds, socket,
                   ctlPc, ctlConns, ctlCur, conns, ctlOut, conflictAt,
                   faults, dbState, watches, walkVars, rdVars>>

\* Action::DeleteQuarantineEntry(e): remove_entry removes the payload and
\* the sidecar
DeleteQuarantineEntry ==
    /\ alive
    /\ workerPc = "callback"
    /\ workerCmd.kind = "DeleteQuarantineEntry"
    /\ quarantineEnabled => ~QuarantineHeld
    /\ LET e == workerCmd.arg
           entry == Lookup(quarantineDir, e)
           es == GetStoredEntries(quarantineDir)
           i == FindByInfo(es, entry[1])
           id == es[i].id
           path == es[i].info.original_path
       IN IF ~quarantineEnabled
          THEN /\ Reply([kind |-> "QuarantineAction", ok |-> FALSE])
               /\ UNCHANGED <<quarantineDir, acts, qops>>
          ELSE IF poisoned
          THEN /\ WorkerPanics
               /\ UNCHANGED <<quarantineDir, acts, clientRx, ctlRx, qops>>
          ELSE IF ~ScanDir(quarantineDir).ok
          THEN /\ WorkerPanics
               /\ quarantineDir' = CleanDir(quarantineDir)
               /\ QuarantineCall("list")
               /\ UNCHANGED <<acts, clientRx, ctlRx>>
          ELSE IF entry = <<>>
          THEN /\ quarantineDir' = CleanDir(quarantineDir)
               /\ QuarantineCall("list")
               /\ Reply([kind |-> "QuarantineAction", ok |-> FALSE])
               /\ UNCHANGED acts
          ELSE /\ quarantineDir' =
                     [payloads |-> Drop(CleanDir(quarantineDir).payloads, id),
                      sidecars |-> Drop(CleanDir(quarantineDir).sidecars, id)]
               /\ acts' = Append(acts, Act("delete", e, id, files[path],
                                        files[path], "done"))
               /\ QuarantineCall("delete")
               /\ Reply([kind |-> "QuarantineAction", ok |-> TRUE])
    /\ UNCHANGED <<cfgVars, files, touches, kernelQ, nextFd, readerVars,
                   write_lock, respVars, detQ, workerCmd, waitFd,
                   no_cache, res, hash, snapshot, compare_counter, cache,
                   dbVars, spawned, histVars, poisoned, adds, socket,
                   ctlPc, ctlConns, ctlCur, conns, ctlOut, conflictAt,
                   faults, dbState, watches, walkVars, rdVars>>

(***************************************************************************)
(* The environment of SpecCache, SpecDetect and SpecDb.                    *)
(***************************************************************************)
Quiet ==
    /\ kernelQ = <<>> /\ readerPc = "poll" /\ respQ = <<>>
    /\ respPc = "recv" /\ detQ = <<>> /\ workerPc = "recv"
    /\ ctlPc \in {"accept", "panicked"}
    /\ ctlPc = "accept" => ctlConns = <<>>

\* an access by another process while the daemon is idle; nameds tells
\* whether /proc/self/fd/<fd> may fail to resolve
QuietEvent(nameds) ==
    /\ alive
    /\ Quiet
    /\ nextFd <= MaxScans
    /\ \E path \in Paths, named \in nameds :
          /\ files[path].exists
          /\ kernelQ' = <<NewEvent("other", {"OPEN_PERM"}, path, named)>>
    /\ nextFd' = nextFd + 1
    /\ UNCHANGED <<cfgVars, files, touches, alive, readerVars, write_lock,
                   respVars, workerVars, cache, dbVars, postVars, histVars,
                   ctlVars, auxVars>>

\* an access by another process at any time the kernel's queue is empty
Access ==
    /\ alive
    /\ kernelQ = <<>>
    /\ nextFd <= MaxScans
    /\ \E path \in Paths :
          /\ files[path].exists
          /\ kernelQ' = <<NewEvent("other", {"OPEN_PERM"}, path, TRUE)>>
    /\ nextFd' = nextFd + 1
    /\ UNCHANGED <<cfgVars, files, touches, alive, readerVars, write_lock,
                   respVars, workerVars, cache, dbVars, postVars, histVars,
                   ctlVars, auxVars>>

\* a client connects and asks for the list at any time
Ask ==
    /\ alive
    /\ socket = "daemon"
    /\ ctlPc = "accept" /\ ctlConns = <<>>
    /\ conns < MaxCommands
    /\ ctlConns' = <<[n |-> conns + 1, cmd |-> "QueryQuarantine", arg |-> ""]>>
    /\ conns' = conns + 1
    /\ UNCHANGED <<cfgVars, envVars, readerVars, write_lock, respVars,
                   workerVars, cache, dbVars, postVars, histVars, poisoned,
                   adds, acts, socket, ctlPc, ctlCur, ctlRx, ctlOut,
                   conflictAt, auxVars>>

\* the files the environment changes: those a detection can read (a file
\* that cannot be read never gets a cache entry)
Readable == {p \in Paths : files[p].exists /\ ~files[p].readErr}

\* chown, chmod, truncate, utimes ... : one stat field of a file changes
Touch ==
    /\ touches < MaxTouch
    /\ \E path \in Readable, f \in StatFields :
          /\ files' = [files EXCEPT ![path].stat[f] = 1 - @]
    /\ touches' = touches + 1
    /\ UNCHANGED <<cfgVars, kernelQ, nextFd, alive, readerVars, write_lock,
                   respVars, workerVars, cache, dbVars, postVars, histVars,
                   ctlVars, auxVars>>

\* a write to the file: the content changes and with it the size, the
\* mtime, or neither (same length within the same second)
WriteFile ==
    /\ touches < MaxTouch
    /\ \E path \in Readable, c \in FileContents, f \in {"none", "size", "mtime"} :
          /\ c # files[path].content
          /\ files' = IF f = "none"
                      THEN [files EXCEPT ![path].content = c]
                      ELSE [files EXCEPT ![path].content = c,
                                         ![path].stat[f] = 1 - @]
    /\ touches' = touches + 1
    /\ UNCHANGED <<cfgVars, kernelQ, nextFd, alive, readerVars, write_lock,
                   respVars, workerVars, cache, dbVars, postVars, histVars,
                   ctlVars, auxVars>>

\* fstat on a descriptor of the file starts to fail (EIO of the device,
\* EOVERFLOW of a size the stat structure of the build cannot hold)
StatBreaks ==
    /\ Quiet
    /\ touches < MaxTouch
    /\ \E path \in Readable :
          /\ ~files[path].statErr
          /\ files' = [files EXCEPT ![path].statErr = TRUE]
    /\ touches' = touches + 1
    /\ UNCHANGED <<cfgVars, kernelQ, nextFd, alive, readerVars, write_lock,
                   respVars, workerVars, cache, dbVars, postVars, histVars,
                   ctlVars, auxVars>>

\* no post-detection thread is running
Settled == \A i \in 1..Len(spawned) : spawned[i].state # "spawned"

\* the file that was moved away is written again at its path, by the same
\* owner and with the same mode, with a content that differs
Recreate ==
    /\ Quiet /\ Settled
    /\ touches < MaxTouch
    /\ \E path \in Paths, c \in {10, 50} :
          /\ ~files[path].exists /\ files[path].parent
          /\ c # files[path].content
          /\ files' = [files EXCEPT ![path].exists = TRUE,
                                     ![path].content = c,
                                     ![path].readErr = FALSE]
    /\ touches' = touches + 1
    /\ UNCHANGED <<cfgVars, kernelQ, nextFd, alive, readerVars, write_lock,
                   respVars, workerVars, cache, dbVars, postVars, histVars,
                   ctlVars, auxVars>>

\* between the verdict and the move: the path a spawned post-detection
\* thread is about to move is unlinked, or another file is renamed over
\* it (another content, another ctime)
Replace ==
    /\ touches < MaxTouch
    /\ \E i \in 1..Len(spawned) :
          /\ spawned[i].state = "spawned"
          /\ spawned[i].path \in Paths
          /\ files[spawned[i].path].exists
          /\ \/ files' = [files EXCEPT ![spawned[i].path].exists = FALSE]
             \/ \E c \in FileContents \ {0, files[spawned[i].path].content} :
                   files' = [files EXCEPT
                               ![spawned[i].path].content = c,
                               ![spawned[i].path].readErr = FALSE,
                               ![spawned[i].path].stat["ctime"] = 1 - @]
    /\ touches' = touches + 1
    /\ UNCHANGED <<cfgVars, kernelQ, nextFd, alive, readerVars, write_lock,
                   respVars, workerVars, cache, dbVars, postVars, histVars,
                   ctlVars, auxVars>>

\* the directory of a path whose file was moved away is removed
RemoveParent ==
    /\ Quiet /\ Settled
    /\ touches < MaxTouch
    /\ touches' = touches + 1
    /\ \E path \in Paths :
          /\ ~files[path].exists /\ files[path].parent
          /\ \E id \in DOMAIN quarantineDir.sidecars :
                quarantineDir.sidecars[id].info.original_path = path
          /\ files' = [files EXCEPT ![path].parent = FALSE]
    /\ UNCHANGED <<cfgVars, kernelQ, nextFd, alive, readerVars,
                   write_lock, respVars, workerVars, cache, dbVars, postVars,
                   histVars, ctlVars, auxVars>>

(***************************************************************************)
(* The updater and the database watcher thread of SimbiotaClientDaemon::   *)
(* start, which runs pre_update and mark_update on every CLOSE_WRITE.      *)
(***************************************************************************)
\* what the updater may write over the database file
Replacements(fmt) ==
    LET d == IF fmt = "modern" THEN DefaultThreshold ELSE 0
    IN {<<>>, <<[hash |-> 10, color |-> 0, distance |-> d]>>,
        <<[hash |-> 11, color |-> 0, distance |-> d]>>,
        <<[hash |-> 10, color |-> 1, distance |-> d]>>,
        <<[hash |-> 10, color |-> 0, distance |-> d],
          [hash |-> 11, color |-> 0, distance |-> d]>>}

\* the updater replaces the database file; inotify queues CLOSE_WRITE
UpdaterWrite ==
    /\ updates < MaxUpdates
    /\ \E obj \in Replacements(format) :
          /\ obj # dbFile
          /\ dbFile' = obj
    /\ dbState' = "ok"
    /\ updates' = updates + 1
    /\ inotifyQ' = inotifyQ + 1
    /\ UNCHANGED <<cfgVars, envVars, readerVars, write_lock, respVars,
                   workerVars, cache, holder, dbObject, objLock, changed,
                   hashes, watcherPc, loadedObj, stored, version, loadedVersion,
                   startVersion, postVars, histVars, ctlVars, faults, watches,
                   qops, walkVars, rdVars>>

\* what can be wrong with the file a CLOSE_WRITE announces: it cannot be
\* read, it does not parse, or it lacks the object the detector requested
Broken == {"unreadable", "unparsable", "noobject"}

\* the updater leaves such a file behind, once while the watcher runs
UpdaterBreaks ==
    /\ watcherPc = "wait" /\ inotifyQ = 0
    /\ dbState = "ok"
    /\ \E b \in Broken : dbState' = b
    /\ inotifyQ' = inotifyQ + 1
    /\ UNCHANGED <<cfgVars, envVars, readerVars, write_lock, respVars,
                   workerVars, cache, dbFile, updates, holder, dbObject,
                   objLock, changed, hashes, watcherPc, loadedObj, stored,
                   version, loadedVersion, startVersion, postVars, histVars,
                   ctlVars, faults, watches, qops, walkVars, rdVars>>

\* a panic of the watcher thread inside mark_update
ReloadPanics ==
    /\ watcherPc' = "panicked"
    /\ faults' = Append(faults, [kind |-> "reload", by |-> dbState,
                                 at |-> Len(written)])

\* read_events_blocking returns; mark_update reads and parses the file
\* into the holder (Normal mode: pre_update does nothing); the expect() on
\* std::fs::read and on Database::from_bytes panics the watcher thread
MarkUpdateLoad ==
    /\ alive
    /\ watcherPc = "wait"
    /\ inotifyQ > 0
    /\ inotifyQ' = inotifyQ - 1
    /\ IF dbState \in {"unreadable", "unparsable"}
       THEN /\ ReloadPanics
            /\ UNCHANGED holder
       ELSE /\ holder' = dbFile
            /\ watcherPc' = "store"
            /\ UNCHANGED faults
    /\ UNCHANGED <<cfgVars, envVars, readerVars, write_lock, respVars,
                   workerVars, cache, dbFile, updates, dbObject, objLock,
                   changed, hashes, loadedObj, stored, version, loadedVersion,
                   startVersion, postVars, histVars, ctlVars, dbState,
                   watches, qops, walkVars, rdVars>>

\* mark_update: database.get_object(*id).unwrap().clone(), which panics
\* when the new database has no such object, then
\* let mut obj = sdo.object.lock().unwrap(); *obj = object
MarkUpdateStore ==
    /\ alive
    /\ watcherPc = "store"
    /\ IF dbState = "noobject"
       THEN /\ ReloadPanics
            /\ UNCHANGED <<objLock, dbObject>>
       ELSE /\ objLock = "free"
            /\ objLock' = "watcher"
            /\ dbObject' = holder
            /\ watcherPc' = "mark"
            /\ UNCHANGED faults
    /\ UNCHANGED <<cfgVars, envVars, readerVars, write_lock, respVars,
                   workerVars, cache, dbFile, updates, inotifyQ, holder,
                   changed, hashes, loadedObj, stored, version, loadedVersion,
                   startVersion, postVars, histVars, ctlVars, dbState,
                   watches, qops, walkVars, rdVars>>

\* mark_update: sdo.changed.store(true); the guard is dropped at the end of
\* the loop body
MarkUpdateDirty ==
    /\ alive
    /\ watcherPc = "mark"
    /\ changed' = TRUE
    /\ objLock' = "free"
    /\ version' = version + 1
    /\ stored' = Append(stored, dbObject)
    /\ watcherPc' = "wait"
    /\ UNCHANGED <<cfgVars, envVars, readerVars, write_lock, respVars,
                   workerVars, cache, dbFile, updates, inotifyQ, holder,
                   dbObject, hashes, loadedObj, loadedVersion, startVersion,
                   postVars, histVars, ctlVars, auxVars>>

(***************************************************************************)
(* The control server thread of start_control_server: ControlServer::new,  *)
(* listen and serve, and its clients.                                      *)
(***************************************************************************)
\* the lines a client may send: a Command of the wire schema, a line that
\* does not parse, nothing before it closes, nothing at all
Honoured == {"QueryQuarantine", "RestoreQuarantine", "DeleteQuarantine"}
Unsupported == {"ManualScan", "ManualScanStatus", "ManualScanCancel",
                "Restart"}
Args == {"0", "1", "/a"}
Requests ==
    [cmd : {"RestoreQuarantine", "DeleteQuarantine"}, arg : Args]
    \cup [cmd : {"QueryQuarantine"} \cup Unsupported
                 \cup {"malformed", "empty", "silent"}, arg : {""}]

\* the requests that work on the quarantine
QuarantineRequests == {r \in Requests : r.cmd \in Honoured}

\* a client connects to the daemon's socket while the daemon is idle and
\* sends its line
Connect(reqs) ==
    /\ alive
    /\ socket = "daemon"
    /\ Quiet /\ Settled
    /\ ctlConns = <<>>
    /\ conns < MaxCommands
    /\ \E r \in reqs :
          ctlConns' = <<[n |-> conns + 1, cmd |-> r.cmd, arg |-> r.arg]>>
    /\ conns' = conns + 1
    /\ UNCHANGED <<cfgVars, envVars, readerVars, write_lock, respVars,
                   workerVars, cache, dbVars, postVars, histVars, poisoned,
                   adds, acts, socket, ctlPc, ctlCur, ctlRx, ctlOut,
                   conflictAt,
                   auxVars>>

\* ControlServer::new, the connect: when another instance answers, exit(1)
\* ends the process
ControlConnect ==
    /\ alive
    /\ ctlPc = "new"
    /\ IF socket = "other"
       THEN /\ alive' = FALSE
            /\ ctlPc' = "exited"
            /\ conflictAt' = Len(written)
       ELSE /\ ctlPc' = "bind"
            /\ UNCHANGED <<alive, conflictAt>>
    /\ UNCHANGED <<cfgVars, files, touches, kernelQ, nextFd, readerVars,
                   write_lock, respVars, workerVars, cache, dbVars, postVars,
                   histVars, poisoned, adds, acts, socket, ctlConns, ctlCur,
                   ctlRx, conns, ctlOut, auxVars>>

\* another instance binds the address between the connect and the bind
OtherBinds ==
    /\ ctlPc = "bind"
    /\ socket = "none"
    /\ socket' = "other"
    /\ UNCHANGED <<cfgVars, envVars, readerVars, write_lock, respVars,
                   workerVars, cache, dbVars, postVars, histVars, poisoned,
                   adds, acts, ctlPc, ctlConns, ctlCur, ctlRx, conns, ctlOut,
                   conflictAt,
                   auxVars>>

\* ControlServer::new, the bind: the expect() panics the control server
\* thread when the address is taken
ControlBind ==
    /\ alive
    /\ ctlPc = "bind"
    /\ IF socket = "none"
       THEN /\ socket' = "daemon"
            /\ ctlPc' = "accept"
            /\ UNCHANGED conflictAt
       ELSE /\ ctlPc' = "panicked"
            /\ conflictAt' = Len(written)
            /\ UNCHANGED socket
    /\ UNCHANGED <<cfgVars, envVars, readerVars, write_lock, respVars,
                   workerVars, cache, dbVars, postVars, histVars, poisoned,
                   adds, acts, ctlConns, ctlCur, ctlRx, conns, ctlOut,
                   auxVars>>

\* listen: the next stream of listener.incoming()
ControlAccept ==
    /\ alive
    /\ ctlPc = "accept"
    /\ ctlConns # <<>>
    /\ ctlCur' = Head(ctlConns)
    /\ ctlConns' = Tail(ctlConns)
    /\ ctlPc' = "serve"
    /\ UNCHANGED <<cfgVars, envVars, readerVars, write_lock, respVars,
                   workerVars, cache, dbVars, postVars, histVars, poisoned,
                   adds, acts, socket, ctlRx, conns, ctlOut, conflictAt,
                   auxVars>>

\* the Action serve sends for a Command
ActionOf(cmd) ==
    IF cmd = "QueryQuarantine" THEN "QueryQuarantine"
    ELSE IF cmd = "RestoreQuarantine" THEN "RestoreQuarantineEntry"
    ELSE "DeleteQuarantineEntry"

\* a connection has ended: what was written to it, whether its command
\* went to the worker, and how serve ended
Served(responses, forwarded, ended) ==
    ctlOut' = Append(ctlOut, [req |-> ctlCur, responses |-> responses,
                              forwarded |-> forwarded, ended |-> ended])

\* serve up to the response or the send to the worker: read_line().unwrap()
\* panics on the read timeout, an empty line and a line that does not parse
\* return, ManualScan answers Failure, todo!() panics
ControlServe ==
    /\ alive
    /\ ctlPc = "serve"
    /\ LET cmd == ctlCur.cmd
       IN IF cmd = "silent"
          THEN /\ ctlPc' = "panicked"
               /\ Served(<<>>, FALSE, "panic")
               /\ UNCHANGED detQ
          ELSE IF cmd \in {"empty", "malformed"}
          THEN /\ ctlPc' = "accept"
               /\ Served(<<>>, FALSE, "return")
               /\ UNCHANGED detQ
          ELSE IF cmd = "ManualScan"
          THEN /\ ctlPc' = "accept"
               /\ Served(<<[status |-> "Failure", response |-> "None"]>>,
                         FALSE, "return")
               /\ UNCHANGED detQ
          ELSE IF cmd \in {"ManualScanStatus", "ManualScanCancel", "Restart"}
          THEN /\ ctlPc' = "panicked"
               /\ Served(<<>>, FALSE, "panic")
               /\ UNCHANGED detQ
          ELSE /\ detQ' = Append(detQ, [kind |-> ActionOf(cmd),
                                        id |-> ControlPair.id,
                                        meta |-> ZeroRecord,
                                        arg |-> ctlCur.arg])
               /\ ctlPc' = "wait"
               /\ UNCHANGED ctlOut
    /\ UNCHANGED <<cfgVars, envVars, readerVars, write_lock, respVars,
                   clientRx, workerPc, workerCmd, waitFd, no_cache, res, hash,
                   snapshot, compare_counter, cache, dbVars, postVars,
                   histVars, poisoned, adds, acts, socket, ctlConns, ctlCur,
                   ctlRx, conns, conflictAt,
                   auxVars>>

\* the CommandResponse serve builds from the CommandResult of the worker
ResponseOf(cmd, result) ==
    IF cmd = "QueryQuarantine" /\ result.kind = "QuarantineEntries"
    THEN [status |-> "Success",
          response |-> [i \in 1..Len(result.entries) |->
                           <<i - 1, result.entries[i].original_path>>]]
    ELSE IF cmd # "QueryQuarantine" /\ result.kind = "QuarantineAction"
    THEN [status |-> "Success", response |-> result.ok]
    ELSE [status |-> "Failure", response |-> "None"]

\* serve after client_rx.recv(): the response is written and the stream
\* closed
ControlReply ==
    /\ alive
    /\ ctlPc = "wait"
    /\ ctlRx # <<>>
    /\ Served(<<ResponseOf(ctlCur.cmd, Head(ctlRx))>>, TRUE, "return")
    /\ ctlRx' = Tail(ctlRx)
    /\ ctlPc' = "accept"
    /\ UNCHANGED <<cfgVars, envVars, readerVars, write_lock, respVars,
                   workerVars, cache, dbVars, postVars, histVars, poisoned,
                   adds, acts, socket, ctlConns, ctlCur, conns, conflictAt,
                   auxVars>>

(***************************************************************************)
(* Initial states: the daemon after SimbiotaClientDaemon::new, with the    *)
(* detector built by get_detector (DistancedTLSHDatabase::new or           *)
(* LegacyTLSHDatabase::new, which reload once).                            *)
(***************************************************************************)
Thresholds == {DefaultThreshold, DefaultThreshold + 1}

File(content, readErr) ==
    [exists |-> TRUE, stat |-> Stat0, content |-> content, readErr |-> readErr,
     parent |-> TRUE, statErr |-> FALSE]

InitControl(pc, sock) ==
    /\ poisoned = FALSE /\ adds = {} /\ acts = <<>>
    /\ socket = sock /\ ctlPc = pc /\ ctlConns = <<>> /\ ctlCur = NoRequest
    /\ ctlRx = <<>> /\ conns = 0 /\ ctlOut = <<>> /\ conflictAt = -1

\* the threads of DetectionSystem::start, the monitor thread at reader and
\* the responder at responder
InitStartingOn(reader, responder, dirs) ==
    /\ touches = 0 /\ kernelQ = <<>> /\ nextFd = 1 /\ alive = TRUE
    /\ readerPc = reader /\ msg_buffer = <<>> /\ read_len = 0
    /\ start_ptr = <<>> /\ readerEv = ZeroRecord
    /\ write_lock = "free"
    /\ respQ = <<>> /\ respPc = responder /\ respEv = ZeroRecord
    /\ respResult = "Allow"
    /\ detQ = <<>> /\ clientRx = <<>> /\ workerPc = "recv"
    /\ workerCmd = [kind |-> "FanotifyEvent", meta |-> ZeroRecord]
    /\ waitFd = 0 /\ no_cache = FALSE /\ res = "NoMatch" /\ hash = 0
    /\ snapshot = <<>> /\ compare_counter = 0
    /\ cache = <<>>
    /\ spawned = <<>> /\ quarantineDir \in dirs
    /\ delivered = {} /\ written = <<>> /\ invoked = {} /\ cacheGets = {}
    /\ cacheSets = {} /\ lastSet = <<>> /\ returned = {}
    /\ faults = <<>> /\ qops = {} /\ dbState = "ok"

\* the same over a quarantine directory without files
InitStarting(reader, responder) == InitStartingOn(reader, responder, {EmptyDir})

\* the monitor in its event loop, the responder started
InitPipeline == InitStarting("poll", "recv")

\* no iterator under study
InitNoWalk ==
    /\ walkBuf = <<>> /\ walkLen = 0 /\ walkPtr = <<>> /\ walkOut = <<>>
    /\ walkPc = "off"

\* no reader under study
InitNoReader ==
    /\ input = [content |-> <<>>, pos |-> 0]
    /\ buffer = <<>> /\ fed = <<>> /\ rdPc = "off"

\* every watch registered
InitAux ==
    /\ watches = <<>>
    /\ InitNoWalk /\ InitNoReader

\* the daemon with its control server bound and listening
InitThreads ==
    /\ InitControl("accept", "daemon")
    /\ InitPipeline
    /\ InitAux

InitDb(objects) ==
    /\ dbObject \in objects
    /\ dbFile = dbObject /\ holder = dbObject /\ loadedObj = dbObject
    /\ hashes = BuildHashes(dbObject)
    /\ updates = 0 /\ inotifyQ = 0 /\ objLock = "free" /\ changed = FALSE
    /\ watcherPc = "wait"
    /\ stored = <<dbObject>>
    /\ version = 0 /\ loadedVersion = 0 /\ startVersion = 0

\* the whole pipeline, over an empty database and a database of one entry
Init ==
    /\ InitThreads
    /\ cacheEnabled = TRUE
    /\ quarantineEnabled = TRUE
    /\ format = "modern"
    /\ threshold = DefaultThreshold
    /\ \E c \in {10, 51} :
          files = [p \in Paths |-> IF p = "/a" THEN File(c, FALSE)
                                   ELSE [File(0, FALSE) EXCEPT !.exists = FALSE]]
    /\ InitDb({<<>>, <<[hash |-> 10, color |-> 0,
                        distance |-> DefaultThreshold]>>})

Next ==
    \/ KernelEvent
    \/ ReaderRead \/ ReaderNext \/ ReaderLock \/ ReaderWrite
    \/ ResponderRecv \/ ResponderGot \/ ResponderLock \/ ResponderWrite
    \/ WorkerRecv \/ CallbackEnter \/ WorkerOwnAccess \/ WorkerUnblock
    \/ CheckReader \/ GetHashes \/ GetHashesIndex \/ CompareStep
    \/ CallbackFinish
    \/ PostDetection

Spec == Init /\ [][Next]_vars

\* the threads of the daemon are scheduled by the operating system: each
\* one that can take a step eventually does
Fairness ==
    /\ WF_vars(ReaderRead) /\ WF_vars(ReaderNext) /\ WF_vars(ReaderLock)
    /\ WF_vars(ReaderWrite)
    /\ WF_vars(ResponderRecv) /\ WF_vars(ResponderGot)
    /\ WF_vars(ResponderLock) /\ WF_vars(ResponderWrite)
    /\ WF_vars(WorkerRecv) /\ WF_vars(CallbackEnter) /\ WF_vars(WorkerUnblock)
    /\ WF_vars(CheckReader) /\ WF_vars(GetHashes) /\ WF_vars(GetHashesIndex)
    /\ WF_vars(CompareStep) /\ WF_vars(CallbackFinish)
    /\ WF_vars(PostDetection)

FairSpec == Spec /\ Fairness

\* the worker fed one event at a time while the files change
InitCache ==
    /\ InitThreads
    /\ cacheEnabled = TRUE
    /\ quarantineEnabled \in BOOLEAN
    /\ format = "legacy"
    /\ threshold = DefaultThreshold
    /\ \E c \in {10, 51} :
          files = [p \in Paths |-> IF p = "/a" THEN File(c, FALSE)
                                              ELSE File(50, TRUE)]
    /\ InitDb({<<[hash |-> 11, color |-> 0, distance |-> 0]>>})

NextCache ==
    \/ QuietEvent({TRUE}) \/ Touch \/ WriteFile
    \/ ReaderRead \/ ReaderNext
    \/ ResponderRecv \/ ResponderGot \/ ResponderLock \/ ResponderWrite
    \/ WorkerRecv \/ CallbackEnter
    \/ CheckReader \/ GetHashes \/ GetHashesIndex \/ CompareStep
    \/ CallbackFinish
    \/ PostDetection

SpecCache == InitCache /\ [][NextCache]_vars

\* the same with events whose /proc/self/fd/<fd> does not resolve
NextUnnamed == NextCache \/ QuietEvent({FALSE})

SpecUnnamed == InitCache /\ [][NextUnnamed]_vars

\* the same with files whose fstat fails
NextStat == NextCache \/ StatBreaks

SpecStat == InitCache /\ [][NextStat]_vars

\* the detector alone, over every database of the bounds
InitDetect ==
    /\ InitThreads
    /\ cacheEnabled = FALSE
    /\ quarantineEnabled = FALSE
    /\ format \in {"modern", "legacy"}
    /\ threshold \in (IF format = "legacy" THEN Thresholds
                                           ELSE {DefaultThreshold})
    /\ \E c \in FileContents \ {0} :
          files = [p \in Paths |-> IF p = "/a" THEN File(c, FALSE)
                                   ELSE [File(0, FALSE) EXCEPT !.exists = FALSE]]
    /\ InitDb(ObjectsOf(format))

NextDetect ==
    \/ QuietEvent({TRUE})
    \/ ReaderRead \/ ReaderNext
    \/ ResponderRecv \/ ResponderGot \/ ResponderLock \/ ResponderWrite
    \/ WorkerRecv \/ CallbackEnter
    \/ CheckReader \/ GetHashes \/ GetHashesIndex \/ CompareStep
    \/ CallbackFinish

SpecDetect == InitDetect /\ [][NextDetect]_vars

\* the detector and the watcher while the updater replaces the database
InitWatch ==
    /\ InitThreads
    /\ cacheEnabled = FALSE
    /\ quarantineEnabled = FALSE
    /\ format \in {"modern", "legacy"}
    /\ threshold = DefaultThreshold
    /\ \E c \in {10, 50} :
          files = [p \in Paths |-> IF p = "/a" THEN File(c, FALSE)
                                   ELSE [File(0, FALSE) EXCEPT !.exists = FALSE]]
    /\ InitDb(Replacements(format))

NextDb ==
    \/ QuietEvent({TRUE})
    \/ UpdaterWrite \/ MarkUpdateLoad \/ MarkUpdateStore \/ MarkUpdateDirty
    \/ ReaderRead \/ ReaderNext
    \/ ResponderRecv \/ ResponderGot \/ ResponderLock \/ ResponderWrite
    \/ WorkerRecv \/ CallbackEnter
    \/ CheckReader \/ GetHashes \/ ReloadClear \/ ReloadClone
    \/ GetHashesIndex \/ CompareStep
    \/ CallbackFinish

SpecDb == InitWatch /\ [][NextDb]_vars

\* the same with the cache enabled: verdicts cached under one database and
\* looked up under the next
InitReload ==
    /\ InitThreads
    /\ cacheEnabled = TRUE
    /\ quarantineEnabled = FALSE
    /\ format \in {"modern", "legacy"}
    /\ threshold = DefaultThreshold
    /\ \E c \in {10, 50} :
          files = [p \in Paths |-> IF p = "/a" THEN File(c, FALSE)
                                   ELSE [File(0, FALSE) EXCEPT !.exists = FALSE]]
    /\ InitDb(Replacements(format))

SpecReload == InitReload /\ [][NextDb]_vars

\* the reloads of SpecDb with updates that leave a broken file behind
NextBroken == NextDb \/ UpdaterBreaks

SpecBroken == InitWatch /\ [][NextBroken]_vars

\* the quarantine and the control server: files are detected, moved to the
\* quarantine, written again, and clients list, restore and delete
InitQuarantine ==
    /\ InitThreads
    /\ cacheEnabled = FALSE
    /\ quarantineEnabled = TRUE
    /\ format = "modern"
    /\ threshold = DefaultThreshold
    /\ files = [p \in Paths |-> IF p = "/a" THEN File(10, FALSE)
                                ELSE [File(0, FALSE) EXCEPT !.exists = FALSE]]
    /\ InitDb({<<[hash |-> 11, color |-> 0, distance |-> DefaultThreshold]>>})

NextQuarantine ==
    \/ QuietEvent({TRUE}) \/ Recreate \/ RemoveParent
    \/ Connect(QuarantineRequests)
    \/ ControlAccept \/ ControlServe \/ ControlReply
    \/ ReaderRead \/ ReaderNext
    \/ ResponderRecv \/ ResponderGot \/ ResponderLock \/ ResponderWrite
    \/ WorkerRecv \/ CallbackEnter
    \/ CheckReader \/ GetHashes \/ GetHashesIndex \/ CompareStep
    \/ CallbackFinish
    \/ PostDetection
    \/ QueryQuarantine \/ RestoreQuarantineEntry \/ DeleteQuarantineEntry

SpecQuarantine == InitQuarantine /\ [][NextQuarantine]_vars

\* the same without clients: files are detected, moved and written again
NextAdd ==
    \/ QuietEvent({TRUE}) \/ Recreate
    \/ ReaderRead \/ ReaderNext
    \/ ResponderRecv \/ ResponderGot \/ ResponderLock \/ ResponderWrite
    \/ WorkerRecv \/ CallbackEnter
    \/ CheckReader \/ GetHashes \/ GetHashesIndex \/ CompareStep
    \/ CallbackFinish
    \/ PostDetection

SpecAdd == InitQuarantine /\ [][NextAdd]_vars

\* the same while the detected path is removed or replaced before the
\* post-detection thread runs
NextSwap == NextAdd \/ Replace

SpecSwap == InitQuarantine /\ [][NextSwap]_vars

\* the quarantine with add_file taken step by step: the decision worker
\* lists, restores and deletes while post-detection threads add
NextExcl ==
    \/ QuietEvent({TRUE}) \/ Recreate
    \/ Connect(QuarantineRequests)
    \/ ControlAccept \/ ControlServe \/ ControlReply
    \/ ReaderRead \/ ReaderNext
    \/ ResponderRecv \/ ResponderGot \/ ResponderLock \/ ResponderWrite
    \/ WorkerRecv \/ CallbackEnter
    \/ CheckReader \/ GetHashes \/ GetHashesIndex \/ CompareStep
    \/ CallbackFinish
    \/ AddFileMove \/ AddFileInfo
    \/ QueryQuarantine \/ RestoreQuarantineEntry \/ DeleteQuarantineEntry

SpecExcl == InitQuarantine /\ [][NextExcl]_vars

\* accesses and clients at any time
NextBusy ==
    \/ Access \/ Ask
    \/ ControlAccept \/ ControlServe \/ ControlReply
    \/ ReaderRead \/ ReaderNext
    \/ ResponderRecv \/ ResponderGot \/ ResponderLock \/ ResponderWrite
    \/ WorkerRecv \/ CallbackEnter
    \/ CheckReader \/ GetHashes \/ GetHashesIndex \/ CompareStep
    \/ CallbackFinish
    \/ PostDetection
    \/ QueryQuarantine

SpecBusy == InitQuarantine /\ [][NextBusy]_vars

\* the quarantine directories a daemon may start over: for each uuid a
\* payload or none, and a sidecar or none, written by this version, by the
\* one that stored the path as an OsString (UTF-8 or not), or left without
\* its JSON by an add_file whose write of the sidecar failed
Dirs ==
    LET payload == [content |-> 10, readErr |-> FALSE,
                    attrs |-> [f \in StatFields \ {"mode"} |-> 0],
                    mode |-> "0000"]
        sidecars == {[info |-> Info("/a", Stat0), mode |-> "0600",
                      shape |-> "new"],
                     [info |-> Info("/a", Stat0), mode |-> "0600",
                      shape |-> "legacy"],
                     [info |-> Info("/b<ff>", Stat0), mode |-> "0600",
                      shape |-> "legacy"],
                     [info |-> Info("/a", Stat0), mode |-> "0600",
                      shape |-> "broken"]}
    IN UNION {[payloads : [P -> {payload}], sidecars : [S -> sidecars]] :
                 <<P, S>> \in (SUBSET Uuids) \X (SUBSET Uuids)}

\* clients that ask for the list of such a directory
InitList ==
    /\ InitControl("accept", "daemon")
    /\ InitStartingOn("poll", "recv", Dirs)
    /\ InitAux
    /\ cacheEnabled = FALSE
    /\ quarantineEnabled = TRUE
    /\ format = "modern"
    /\ threshold = DefaultThreshold
    /\ files = [p \in Paths |-> File(10, FALSE)]
    /\ InitDb({<<>>})

NextList ==
    \/ Ask
    \/ ControlAccept \/ ControlServe \/ ControlReply
    \/ WorkerRecv
    \/ QueryQuarantine

SpecList == InitList /\ [][NextList]_vars

\* the daemon from the start of its control server thread on, with or
\* without another instance bound to the control address, and the clients
\* of the control socket
InitControlServer ==
    /\ \E sock \in {"none", "other"} : InitControl("new", sock)
    /\ InitPipeline
    /\ InitAux
    /\ cacheEnabled = FALSE
    /\ quarantineEnabled = FALSE
    /\ format = "modern"
    /\ threshold = DefaultThreshold
    /\ files = [p \in Paths |-> IF p = "/a" THEN File(10, FALSE)
                                ELSE [File(0, FALSE) EXCEPT !.exists = FALSE]]
    /\ InitDb({<<[hash |-> 11, color |-> 0, distance |-> DefaultThreshold]>>})

NextControlServer ==
    \/ ControlConnect \/ OtherBinds \/ ControlBind
    \/ Connect(Requests)
    \/ ControlAccept \/ ControlServe \/ ControlReply
    \/ QuietEvent({TRUE})
    \/ ReaderRead \/ ReaderNext
    \/ ResponderRecv \/ ResponderGot \/ ResponderLock \/ ResponderWrite
    \/ WorkerRecv \/ CallbackEnter
    \/ CheckReader \/ GetHashes \/ GetHashesIndex \/ CompareStep
    \/ CallbackFinish
    \/ PostDetection
    \/ QueryQuarantine \/ RestoreQuarantineEntry \/ DeleteQuarantineEntry

SpecControlServer == InitControlServer /\ [][NextControlServer]_vars

\* the pipeline over a notification channel whose reads and writes can fail
InitChannel ==
    /\ InitThreads
    /\ cacheEnabled = FALSE
    /\ quarantineEnabled = FALSE
    /\ format = "modern"
    /\ threshold = DefaultThreshold
    /\ files = [p \in Paths |-> IF p = "/a" THEN File(10, FALSE)
                                ELSE [File(0, FALSE) EXCEPT !.exists = FALSE]]
    /\ InitDb({<<[hash |-> 11, color |-> 0, distance |-> DefaultThreshold]>>})

NextChannel ==
    \/ KernelEvent
    \/ ReaderRead \/ ReaderNext \/ ReaderLock \/ ReaderWrite
    \/ ResponderRecv \/ ResponderGot \/ ResponderLock \/ ResponderWrite
    \/ ReaderReadFails \/ ReaderWriteFails \/ ResponderWriteFails
    \/ WorkerRecv \/ CallbackEnter
    \/ CheckReader \/ GetHashes \/ GetHashesIndex \/ CompareStep
    \/ CallbackFinish
    \/ PostDetection

SpecChannel == InitChannel /\ [][NextChannel]_vars

\* the daemon from the start of its monitor thread on, over every
\* configuration of watches and what the kernel says to each
InitMark ==
    /\ InitControl("accept", "daemon")
    /\ InitStarting("start", "off")
    /\ watches \in SeqsUpTo([mask : {{"OPEN_PERM"}, {"OPEN"}},
                              err : MarkResults], MaxWatches)
    /\ InitNoWalk /\ InitNoReader
    /\ cacheEnabled = FALSE
    /\ quarantineEnabled = FALSE
    /\ format = "modern"
    /\ threshold = DefaultThreshold
    /\ files = [p \in Paths |-> IF p = "/a" THEN File(10, FALSE)
                                ELSE [File(0, FALSE) EXCEPT !.exists = FALSE]]
    /\ InitDb({<<[hash |-> 11, color |-> 0, distance |-> DefaultThreshold]>>})

NextMark ==
    \/ MonitorStart
    \/ QuietEvent({TRUE})
    \/ ReaderRead \/ ReaderNext
    \/ ResponderRecv \/ ResponderGot \/ ResponderLock \/ ResponderWrite
    \/ WorkerRecv \/ CallbackEnter
    \/ CheckReader \/ GetHashes \/ GetHashesIndex \/ CompareStep
    \/ CallbackFinish
    \/ PostDetection

SpecMark == InitMark /\ [][NextMark]_vars

\* the daemon idle, for the functions studied on their own
InitIdle ==
    /\ InitControl("accept", "daemon")
    /\ InitPipeline
    /\ watches = <<>>
    /\ cacheEnabled = FALSE
    /\ quarantineEnabled = FALSE
    /\ format = "modern"
    /\ threshold = DefaultThreshold
    /\ files = [p \in Paths |-> File(10, FALSE)]
    /\ InitDb({<<>>})

\* the iterator monitor_listen builds after a read that returned k complete
\* records into the zeroed buffer: read_len is their length, start_ptr null
InitWalk ==
    /\ InitIdle /\ InitNoReader
    /\ \E k \in 0..MaxRecords :
          /\ \E pid \in [1..k -> Pids],
                mask \in [1..k -> {{"OPEN"}, {"OPEN_PERM"}}] :
                walkBuf = [i \in 1..k |->
                             [fd |-> i, pid |-> pid[i], mask |-> mask[i],
                              path |-> "/a", named |-> TRUE,
                              event_len |-> MetadataLen]]
          /\ walkLen = k * MetadataLen
    /\ walkPtr = <<>> /\ walkOut = <<>> /\ walkPc = "walk"

SpecWalk == InitWalk /\ [][WalkNext]_vars

\* the contents: up to MaxRuns runs of bytes 1 and 2, of lengths around
\* the buffer's size
Contents ==
    {Norm(c) : c \in SeqsUpTo([b : {1, 2},
                               n : {1, READ_BUFFER_SIZE - 1, READ_BUFFER_SIZE,
                                    READ_BUFFER_SIZE + 1}], MaxRuns)}

\* check_reader entered on a reader over one content: buffer zeroed,
\* A::new()
InitRead ==
    /\ InitIdle /\ InitNoWalk
    /\ \E c \in Contents : input = [content |-> c, pos |-> 0]
    /\ buffer = <<[b |-> 0, n |-> READ_BUFFER_SIZE]>>
    /\ fed = <<>>
    /\ rdPc = "read"

SpecRead == InitRead /\ [][ReadLoop]_vars

(***************************************************************************)
(* Properties of the event pipeline.                                       *)
(***************************************************************************)
\* the delivered events that need a response
PermDelivered == {e \in delivered : NeedsResponse(e.mask)}

\* number of response records written for the fd
ResponsesFor(fd) ==
    Cardinality({i \in 1..Len(written) : written[i].fd = fd})

\* C1: every delivered event whose mask holds OPEN_PERM, OPEN_EXEC_PERM or
\* ACCESS_PERM is eventually answered by exactly one response record
\* carrying its fd, whatever the size of the read that delivered it.
C1_ExactlyOneResponse ==
    \A fd \in 1..MaxEvents :
        [](fd \in {e.fd : e \in PermDelivered}
              => <>[](ResponsesFor(fd) = 1))

\* C1, the case that fails: one read has returned two records, the second
\* a permission event, and the reader is back in poll()
C1_SecondRecordOfRead ==
    /\ readerPc = "poll"
    /\ Len(msg_buffer) >= 2
    /\ msg_buffer[2] \in PermDelivered
    /\ ResponsesFor(msg_buffer[2].fd) = 0

\* the events of the daemon's own pid that the daemon has read
OwnDelivered == {e \in delivered : e.pid = "daemon"}

\* C2: an event of the daemon's own pid is never answered with Deny, never
\* reaches the detector, the cache or a quarantine action; when it needs a
\* response the reader writes Allow itself and hands it to nobody.
C2_OwnPidBypasses ==
    \A e \in OwnDelivered :
        /\ \A i \in 1..Len(written) :
              written[i].fd = e.fd => written[i].response = "Allow"
        /\ \A r \in returned : r.fd = e.fd => r.verdict = "Allow"
        /\ e.fd \notin invoked
        /\ \A g \in cacheGets : g.fd # e.fd
        /\ e.fd \notin cacheSets
        /\ \A i \in 1..Len(spawned) : spawned[i].fd # e.fd
        /\ NeedsResponse(e.mask) =>
              /\ \A i \in 1..Len(written) :
                    written[i].fd = e.fd => written[i].by = "reader"
              /\ \A i \in 1..Len(respQ) : respQ[i].meta.fd # e.fd
              /\ \A i \in 1..Len(detQ) : detQ[i].meta.fd # e.fd
              /\ workerPc # "recv" => workerCmd.meta.fd # e.fd
              /\ respPc # "recv" => respEv.fd # e.fd

\* C2, reached: the reader has answered a permission event of the daemon
\* and the worker has returned from a notification event of the daemon
C2_OwnPidAnswered ==
    /\ \E e \in OwnDelivered :
          /\ NeedsResponse(e.mask)
          /\ \E i \in 1..Len(written) : written[i].fd = e.fd
    /\ \E e \in OwnDelivered :
          /\ ~NeedsResponse(e.mask)
          /\ \E r \in returned : r.fd = e.fd

\* C3: the daemon does not deadlock on its own I/O: an access of the worker
\* that the kernel holds for a permission event is always released, so the
\* detection that made it goes on.
C3_OwnAccessReleased ==
    (workerPc = "blocked") ~> (workerPc # "blocked")

\* C3, the case that fails: the event of the worker's own access was the
\* second record of a read; the reader is back in poll() without having
\* answered it and the worker waits for the answer
C3_OwnAccessLost ==
    /\ workerPc = "blocked"
    /\ readerPc = "poll"
    /\ \E e \in delivered : e.fd = waitFd
    /\ ResponsesFor(waitFd) = 0

(***************************************************************************)
(* Properties of detector_callback and the detection cache.                *)
(***************************************************************************)
\* what detector_callback returned for events of other processes
ReturnedOther ==
    {r \in returned : \E e \in delivered : e.fd = r.fd /\ e.pid # "daemon"}

\* the post-detection threads spawned for the fd
SpawnedFor(fd) == {i \in 1..Len(spawned) : spawned[i].fd = fd}

\* C4: for an event of another process the worker returns Deny exactly
\* when the detection result, fresh or cached, is Match, and Allow
\* otherwise, with quarantine enabled or not and whether or not the move
\* into the quarantine succeeds; the responder writes that verdict.
C4_DenyIffMatch ==
    /\ \A r \in ReturnedOther :
          /\ r.verdict \in {"Allow", "Deny"}
          /\ r.verdict = "Deny" <=> r.result = "Match"
    /\ \A i \in 1..Len(written) :
          written[i].by = "responder" =>
             \E r \in ReturnedOther :
                /\ r.fd = written[i].fd
                /\ r.verdict = written[i].response

\* C4, reached: the move into the quarantine failed for a fresh Match, and
\* the next access to the file was denied from the cache
C4_DenyAfterFailedQuarantine ==
    /\ \E i \in 1..Len(spawned) : spawned[i].state = "panicked"
    /\ \E r \in ReturnedOther : r.cached /\ r.verdict = "Deny"
    /\ \E r \in ReturnedOther : ~r.cached /\ r.verdict = "Deny"

\* C5: with the in-memory cache, a get for a key whose last set stored v
\* under the fingerprint the file has now returns v, and the worker answers
\* from it without invoking the detector.
C5_GetAfterSet ==
    cacheEnabled =>
       \A g \in cacheGets :
          g.want # "none" =>
             /\ g.hit = g.want
             /\ g.fd \notin invoked
             /\ \A r \in returned :
                   r.fd = g.fd => r.cached /\ r.result = g.want

\* C5, reached: a get has returned the value of an earlier set and the
\* worker has answered from it
C5_CacheHit ==
    \E g \in cacheGets :
       /\ g.want # "none"
       /\ \E r \in returned : r.fd = g.fd /\ r.cached

\* C6 as stated: after a fingerprint field has changed the next get for
\* the path returns absent, the detector is invoked again, and the entry
\* is overwritten with the current fingerprint and the new verdict.
C6_StaleAlwaysOverwritten ==
    \A g \in cacheGets :
       g.stale =>
          /\ g.hit = "none"
          /\ \A r \in returned :
                r.fd = g.fd =>
                   /\ g.fd \in invoked
                   /\ r.after # <<>>
                   /\ r.after[1].data = r.stat
                   /\ Verdict(r.after[1].result) = r.verdict

\* C6, amended: after a fingerprint field has changed the next get for the
\* path returns absent and the detector is invoked again; when the
\* detector returns a result the entry is overwritten with the current
\* fingerprint and that result, and when it returns an error the entry is
\* left as it was.
C6_StaleNeverReturned ==
    \A g \in cacheGets :
       g.stale =>
          /\ g.hit = "none"
          /\ \A r \in returned :
                r.fd = g.fd =>
                   /\ g.fd \in invoked
                   /\ ~r.cached
                   /\ r.result \in {"Match", "NoMatch"} =>
                         r.after = <<[data |-> r.stat, result |-> r.result]>>
                   /\ r.result = "error" => r.after = g.before

\* C6, reached: a get has found the entry of a file whose fingerprint had
\* changed, and the detection that followed has replaced the entry
C6_StaleRefreshed ==
    \E g \in cacheGets :
       /\ g.stale
       /\ \E r \in returned :
             /\ r.fd = g.fd
             /\ r.result \in {"Match", "NoMatch"}
             /\ r.after # g.before

\* C7: when the detector returns an error the worker returns Allow,
\* leaves the cache entry of the path as it was and dispatches no
\* post-detection action.
C7_ErrorAllowsUncached ==
    \A r \in returned :
       r.result = "error" =>
          /\ r.verdict = "Allow"
          /\ r.fd \notin cacheSets
          /\ \A g \in cacheGets : g.fd = r.fd => r.after = g.before
          /\ SpawnedFor(r.fd) = {}
          /\ \A i \in 1..Len(written) :
                written[i].fd = r.fd => written[i].response = "Allow"

\* C7, reached: the detector failed on a file that had a cache entry, and
\* the answer has been written
C7_ErrorReturned ==
    \E r \in returned :
       /\ r.result = "error"
       /\ r.after # <<>>
       /\ \E i \in 1..Len(written) : written[i].fd = r.fd

(***************************************************************************)
(* Properties of the detector and the signature database.                  *)
(***************************************************************************)
\* the threshold that applies to an entry
ThresholdOf(entry) == IF format = "modern" THEN entry.distance ELSE threshold

\* the color-0 entries of the object the detector has loaded
ColorZero == SelectColor(loadedObj, 0)

\* positions of ColorZero whose diff to h is below the threshold
MatchingAt(h) ==
    {i \in 1..Len(ColorZero) :
        Diff(h, ColorZero[i].hash) < ThresholdOf(ColorZero[i])}

\* C8: the detector returns Match exactly when a color-0 entry of the
\* snapshot has a diff strictly below its threshold (the entry's distance
\* in the modern format, the configured constant in the legacy format); it
\* stops at the first such entry, returns NoMatch only after comparing
\* every entry, and entries of other colors are never compared.
C8_MatchIffBelowThreshold ==
    /\ workerPc \in {"compare", "finish"} /\ res # "Err" =>
          /\ snapshot = ColorZero
          /\ \A i \in 1..compare_counter :
                i \in MatchingAt(hash) <=> (i = compare_counter /\ res = "Match")
          /\ workerPc = "finish" =>
                /\ res = "Match" <=> MatchingAt(hash) # {}
                /\ res = "NoMatch" => compare_counter = Len(ColorZero)
    /\ \A r \in returned :
          r.result \in {"Match", "NoMatch"} =>
             (r.result = "Match" <=> MatchingAt(files["/a"].content) # {})

\* C8, reached: NoMatch returned although a color-0 entry is at a diff
\* equal to its threshold and an entry of another color is below its own
C8_ThresholdNotMatched ==
    /\ \E r \in returned : r.result = "NoMatch"
    /\ \E i \in 1..Len(ColorZero) :
          Diff(files["/a"].content, ColorZero[i].hash) = ThresholdOf(ColorZero[i])
    /\ \E i \in 1..Len(loadedObj) :
          /\ loadedObj[i].color # 0
          /\ Diff(files["/a"].content, loadedObj[i].hash)
                < ThresholdOf(loadedObj[i])

\* C9 as stated: when the loaded object holds no entry of color 0, at
\* construction or after a reload, a detection completes and returns
\* NoMatch.
C9_NoColorZeroNoMatch ==
    ColorZero = <<>> =>
       /\ workerPc # "panicked"
       /\ workerPc = "finish" /\ res # "Err" => res = "NoMatch"

\* C9, the case that fails: a detection has reached get_hashes with an
\* object reloaded after construction that holds no entry of color 0
C9_ReloadedWithoutColorZero ==
    /\ loadedVersion > 0
    /\ ColorZero = <<>>
    /\ workerPc = "panicked"

MatchesIn(obj, h) ==
    \E i \in 1..Len(obj) :
       /\ obj[i].color = 0
       /\ Diff(h, obj[i].hash) < ThresholdOf(obj[i])

\* C11 as stated: once mark_update has completed for a replaced signature
\* file, the verdict of every access that begins afterwards is decided by
\* the new set: Deny exactly when the file matches an entry of the new
\* set, so Allow under an empty new set, also when the cache still holds a
\* verdict computed under the old set with an unchanged fingerprint.
C11_NewSetDecides ==
    \A r \in ReturnedOther :
       r.result \in {"Match", "NoMatch"} /\ r.began >= 1 /\ r.ver = r.began =>
          (r.verdict = "Deny"
              <=> MatchesIn(stored[r.ver + 1], files["/a"].content))

\* C11, the case that fails: after a completed reload to the empty set a
\* verdict Match is served from the cache and answered Deny
C11_CachedMatchAfterEmptySet ==
    \E r \in ReturnedOther :
       /\ r.cached /\ r.result = "Match" /\ r.verdict = "Deny"
       /\ r.began >= 1
       /\ stored[r.began + 1] = <<>>
       /\ \E w \in Range(written) : w.fd = r.fd /\ w.response = "Deny"

\* C15 as stated: for every permission event the decision worker handles,
\* the response record of the event is written to the notification channel
\* before the daemon closes the event's fd.
C15_ResponseBeforeClose ==
    \A r \in returned :
       r.kind = "FanotifyEventWithResponse" /\ r.closed =>
          ResponsesFor(r.fd) >= 1

\* C15, the case that fails: detector_callback has returned and dropped the
\* File of the event, and the responder has not yet written the response
C15_ClosedBeforeResponse ==
    \E r \in ReturnedOther :
       /\ r.kind = "FanotifyEventWithResponse" /\ r.closed
       /\ ResponsesFor(r.fd) = 0
       /\ respPc = "write" /\ respEv.fd = r.fd

(***************************************************************************)
(* Properties of the quarantine.                                           *)
(***************************************************************************)
\* the completed add_file call that made payload id
AddOf(id) == CHOOSE a \in adds : a.id = id

\* the calls of restore_entry and remove_entry that were asked for by index
ByIndex(op) ==
    {i \in 1..Len(acts) : /\ acts[i].op = op /\ acts[i].outcome = "done"
                          /\ acts[i].arg \in DOMAIN Usize}

\* C12 as stated: add of a file, then list, then restore of its entry (by
\* the index the list shows) leaves a file at the original path with the
\* content, mode, uid and gid the file had when it was added, and leaves
\* neither its payload nor its sidecar in the quarantine directory.
C12_RestoreGivesBack ==
    \A i \in ByIndex("restore") :
       \A t \in acts[i].designated :
          /\ acts[i].file.exists
          /\ acts[i].file.content = AddOf(t).file.content
          /\ \A f \in {"mode", "uid", "gid"} :
                acts[i].file.stat[f] = AddOf(t).file.stat[f]
          /\ t \notin DOMAIN acts[i].after.payloads
          /\ t \notin DOMAIN acts[i].after.sidecars

\* C12, the case that fails: the file restored for the entry of one add
\* has the content of another add, and the entry asked for is still there
C12_OtherContentRestored ==
    \E i \in ByIndex("restore") :
       \E t \in acts[i].designated :
          /\ acts[i].file.content # AddOf(t).file.content
          /\ t \in DOMAIN acts[i].after.payloads
          /\ \E c \in Range(ctlOut) : c.req.cmd = "QueryQuarantine"

\* C13 as stated: add of a file, then list, then delete of its entry (by
\* the index the list shows) leaves neither its payload nor its sidecar in
\* the quarantine directory, puts no file at the original path, and leaves
\* every other entry as it was.
C13_DeleteRemovesOnlyIt ==
    \A i \in ByIndex("delete") :
       \A t \in acts[i].designated :
          /\ t \notin DOMAIN acts[i].after.payloads
          /\ t \notin DOMAIN acts[i].after.sidecars
          /\ ~acts[i].was.exists => ~acts[i].file.exists
          /\ \A x \in DOMAIN acts[i].before.payloads \ {t} :
                /\ x \in DOMAIN acts[i].after.payloads
                /\ x \in DOMAIN acts[i].after.sidecars
                /\ acts[i].after.payloads[x] = acts[i].before.payloads[x]
                /\ acts[i].after.sidecars[x] = acts[i].before.sidecars[x]

\* C13, the case that fails: the delete asked for one entry removed
\* another one and left the entry asked for in the directory
C13_OtherEntryDeleted ==
    \E i \in ByIndex("delete") :
       \E t \in acts[i].designated :
          /\ t \in DOMAIN acts[i].after.payloads
          /\ t \in DOMAIN acts[i].after.sidecars
          /\ DOMAIN acts[i].before.payloads \ DOMAIN acts[i].after.payloads
                # {t}
          /\ \E c \in Range(ctlOut) : c.req.cmd = "QueryQuarantine"

\* C14: after every completed add the directory holds the payload, with the
\* file's content and mode 0000, under a v4 uuid drawn from all the names
\* no earlier add has used, whatever the original path, and the sidecar
\* with mode 0600 that records the original path, uid, gid and mode; no two
\* adds share a name; the file is no longer at its original path.
C14_AddStoresPayloadAndSidecar ==
    \A a \in adds :
       /\ a.id \in a.names
       /\ a.names = Uuids \ {b.id : b \in {c \in adds : c.n < a.n}}
       /\ \A b \in adds : b.id = a.id => b = a
       /\ a.payload.mode = "0000"
       /\ a.payload.content = a.file.content
       /\ a.sidecar.mode = "0600"
       /\ a.sidecar.info = [original_path |-> a.path,
                            uid |-> a.file.stat.uid, gid |-> a.file.stat.gid,
                            mode |-> a.file.stat.mode]
       /\ ~a.present

\* C14, reached: the same path was added twice, under two names whose
\* order is not the order of the adds, and both payloads are stored
C14_SamePathTwoNames ==
    \E a, b \in adds :
       /\ a.n < b.n /\ a.path = b.path /\ b.id < a.id
       /\ {a.id, b.id} \subseteq DOMAIN quarantineDir.payloads
       /\ {a.id, b.id} \subseteq DOMAIN quarantineDir.sidecars

\* C16 as stated: RestoreQuarantine and DeleteQuarantine given a decimal
\* index work on exactly the payload that get_stored_entries lists at that
\* index, and given another string on a payload whose original path is
\* that string, whatever the directory holds, entries with equal original
\* path, uid, gid and mode included.
C16_ActsOnDesignated ==
    \A i \in 1..Len(acts) : acts[i].id \in acts[i].designated

\* C16, the case that fails: two entries with equal info are stored and
\* the call asked for by the index of the second worked on the first
C16_FirstOfEqualInfos ==
    \E i \in 1..Len(acts) :
       /\ acts[i].arg = "1"
       /\ acts[i].id \notin acts[i].designated
       /\ \E t \in acts[i].designated :
             acts[i].before.sidecars[t].info
                = acts[i].before.sidecars[acts[i].id].info

\* C17 as stated: restoring an entry whose original path's parent directory
\* is gone fails as an outcome of the operation: no directory and no file
\* is created, the payload and its sidecar stay as they were, and the
\* decision worker goes on.
C17_RestoreFailsAsOutcome ==
    \A i \in 1..Len(acts) :
       acts[i].op = "restore" /\ ~acts[i].was.parent =>
          /\ ~acts[i].file.parent /\ ~acts[i].file.exists
          /\ acts[i].after = acts[i].before
          /\ acts[i].outcome # "panic"
          /\ alive /\ workerPc # "panicked"

\* C17, the case that fails: the restore panicked on the worker and the
\* process is gone, with the payload and the sidecar still stored
C17_RestorePanicked ==
    \E i \in 1..Len(acts) :
       /\ acts[i].op = "restore" /\ ~acts[i].was.parent
       /\ acts[i].outcome = "panic"
       /\ acts[i].id \in DOMAIN quarantineDir.payloads
       /\ ~alive /\ workerPc = "panicked"

(***************************************************************************)
(* Properties of the control server.                                       *)
(***************************************************************************)
\* C18 as stated: each of ManualScan, ManualScanStatus, ManualScanCancel
\* and Restart received on the control socket is answered with one
\* response whose status is Failure and is not sent to the decision worker.
C18_UnsupportedAnsweredFailure ==
    \A i \in 1..Len(ctlOut) :
       ctlOut[i].req.cmd \in Unsupported =>
          /\ Len(ctlOut[i].responses) = 1
          /\ ctlOut[i].responses[1].status = "Failure"
          /\ ~ctlOut[i].forwarded

\* C18, the case that fails: a connection that sent ManualScanStatus,
\* ManualScanCancel or Restart ended with nothing written, the control
\* server thread gone
C18_UnsupportedUnanswered ==
    \E i \in 1..Len(ctlOut) :
       /\ ctlOut[i].req.cmd \in Unsupported \ {"ManualScan"}
       /\ ctlOut[i].responses = <<>>
       /\ ctlOut[i].ended = "panic"
       /\ ctlPc = "panicked"

\* C19 as stated: the control server serves the connections one at a time
\* in the order they arrive, writes exactly one response for each
\* QueryQuarantine, RestoreQuarantine and DeleteQuarantine request, and
\* after a connection that sent such a request, a malformed line or
\* nothing, or that ran into the timeout, it returns to accept the next.
C19_ServesOneByOne ==
    \A i \in 1..Len(ctlOut) :
       /\ ctlOut[i].req.n = i
       /\ ctlOut[i].req.cmd \in Honoured => Len(ctlOut[i].responses) = 1
       /\ ctlOut[i].req.cmd \in Honoured \cup {"malformed", "empty", "silent"}
             => ctlOut[i].ended = "return"

\* C19, the case that fails: a connection ran into the read timeout, the
\* control server thread panicked, and the next connection waits unserved
C19_TimeoutEndsServer ==
    /\ ctlOut # <<>>
    /\ ctlOut[Len(ctlOut)].req.cmd = "silent"
    /\ ctlOut[Len(ctlOut)].ended = "panic"
    /\ ctlPc = "panicked"
    /\ ctlConns # <<>>
    /\ alive

\* C20 as stated: once the socket conflict has shown at startup, as the
\* connect succeeding or as the bind failing, the process of the starting
\* daemon is gone and writes no further response to a kernel event, and
\* the other instance stays bound.
C20_ConflictIsFatal ==
    conflictAt >= 0 =>
       /\ ~alive
       /\ Len(written) = conflictAt
       /\ socket = "other"

\* C20, the case that fails: the bind failed, the control server thread
\* panicked, and the daemon has answered a kernel event since
C20_BindFailedStillAnswering ==
    /\ conflictAt >= 0
    /\ ctlPc = "panicked"
    /\ alive
    /\ Len(written) > conflictAt
    /\ socket = "other"

(***************************************************************************)
(* Properties of the error paths.                                          *)
(***************************************************************************)
\* C21 as stated: a panic in a post-detection action (a quarantine rename
\* that fails) kills only that thread: no later post-detection thread dies
\* taking the quarantine lock, and the decision worker is not ended by a
\* QueryQuarantine, RestoreQuarantine or DeleteQuarantine command (it ends
\* only where a restore of its own fails).
C21_PanicKillsOnlyThatThread ==
    (\E i \in 1..Len(spawned) : spawned[i].at = "rename") =>
       /\ \A j \in 1..Len(spawned) : spawned[j].at # "lock"
       /\ workerPc = "panicked" =>
             \E k \in 1..Len(acts) : acts[k].outcome = "panic"

\* C21, the case that fails: a rename failed in one post-detection thread,
\* the thread of a later detection panicked on the poisoned quarantine
\* mutex, and so did the decision worker when a control command arrived:
\* the process is gone and the command has no reply
C21_PoisonedLockKillsWorker ==
    /\ \E i, j \in 1..Len(spawned) :
          i < j /\ spawned[i].at = "rename" /\ spawned[j].at = "lock"
    /\ workerPc = "panicked" /\ ~alive
    /\ workerCmd.kind \in {"QueryQuarantine", "RestoreQuarantineEntry",
                           "DeleteQuarantineEntry"}
    /\ \A k \in 1..Len(acts) : acts[k].outcome # "panic"
    /\ ctlRx = <<>>

\* C22 as stated: once a read of the notification channel has failed with
\* an error other than interruption, or a verdict write has failed in the
\* reader's fast path or in the responder, the daemon process is gone.
C22_ChannelFailureIsFatal ==
    faults # <<>> => ~alive

\* C22, the case that fails: the responder's verdict write failed and
\* panicked the responder thread only; the reader thread then panicked on
\* its send, and the process lives on with the decision worker waiting on
\* its channel and later events of the kernel never read
C22_AliveWithDeadChannel ==
    /\ \E i \in 1..Len(faults) :
          faults[i].kind = "write" /\ faults[i].by = "responder"
    /\ respPc = "panicked" /\ readerPc = "panicked"
    /\ alive /\ workerPc = "recv" /\ detQ = <<>>
    /\ kernelQ # <<>>

\* C23 as stated: a signature reload that fails (the database file cannot
\* be read, does not parse, or lacks the object requested before) ends the
\* daemon process.
C23_ReloadFailureIsFatal ==
    (\E i \in 1..Len(faults) : faults[i].kind = "reload") => ~alive

\* C23, the case that fails: the reload panicked the watcher thread only;
\* the daemon has written a verdict since, from the object loaded before,
\* and a later good database file waits unnoticed
C23_OldSnapshotAfterFailedReload ==
    /\ \E i \in 1..Len(faults) :
          faults[i].kind = "reload" /\ Len(written) > faults[i].at
    /\ watcherPc = "panicked" /\ alive
    /\ dbState = "ok" /\ dbFile # dbObject /\ inotifyQ > 0
    /\ dbObject = stored[Len(stored)]

\* C24 as stated: an event whose fd cannot be stat-ed is a cache miss and
\* its verdict is produced: the decision worker is never ended while it
\* handles an event of a file whose fstat fails.
C24_StatFailureIsMiss ==
    workerPc = "panicked" => ~files[workerCmd.meta.path].statErr

\* C24, the case that fails: fstat failed for the event's fd inside the
\* cache and the panic ended the worker, and with it the process, with no
\* verdict for the event
C24_StatFailureKillsWorker ==
    /\ workerPc = "panicked" /\ ~alive
    /\ files[workerCmd.meta.path].statErr
    /\ \A r \in returned : r.fd # workerCmd.meta.fd
    /\ \A i \in 1..Len(written) : written[i].fd # workerCmd.meta.fd

\* C25 as stated: once the kernel has rejected a configured watch, the
\* daemon process is gone if some rejected watch asks for a permission
\* kind, whatever the reason, and otherwise the monitor thread has gone on
\* into its event loop.
C25_RejectedWatch ==
    LET marks == {i \in 1..Len(faults) : faults[i].kind = "mark"}
    IN marks # {} =>
          IF \E i \in marks : faults[i].perm
          THEN ~alive
          ELSE alive /\ readerPc # "panicked"

\* C25, the case that fails: a watch with a permission kind was rejected
\* for a reason other than InvalidValue, nothing stopped, and the daemon
\* has answered an event since
C25_PermWatchRejectedGoesOn ==
    /\ \E i \in 1..Len(faults) :
          /\ faults[i].kind = "mark"
          /\ faults[i].perm /\ faults[i].by = "NotExists"
    /\ alive /\ readerPc = "poll"
    /\ written # <<>>

(***************************************************************************)
(* Properties of the decision worker's loop.                               *)
(***************************************************************************)
\* C26 as stated: while a permission event is queued for the decision
\* worker and has no verdict yet, the worker runs no call of the
\* quarantine: every such call found no permission event waiting.
C26_VerdictNeverWaitsOnQuarantine ==
    \A q \in qops : q.waiting = {}

\* C26, the case that fails: the worker listed the quarantine directory
\* under the quarantine mutex while a permission event sat in its channel,
\* and that event has its verdict only afterwards
C26_ListedWhileEventWaited ==
    \E q \in qops :
       /\ q.op = "list"
       /\ \E fd \in q.waiting : \E r \in returned : r.fd = fd

(***************************************************************************)
(* Properties of the event walk and of the reader's hashing.               *)
(***************************************************************************)
\* C27 as stated: over a buffer of k >= 0 complete records laid end to
\* end the walk returns records of the buffer in buffer order, and when it
\* has halted it has returned exactly those k records, each once.
C27_WalkYieldsEveryRecord ==
    /\ Len(walkOut) <= Len(walkBuf)
    /\ \A i \in 1..Len(walkOut) : walkOut[i] = walkBuf[i]
    /\ walkPc = "done" => walkOut = walkBuf

\* C27, the case that fails: the buffer held two records and the walk
\* halted after the first, its pointer 24 records further on instead of 24
\* bytes
C27_WalkStopsAfterFirst ==
    /\ walkPc = "done"
    /\ Len(walkBuf) = 2
    /\ walkOut = <<walkBuf[1]>>
    /\ walkPtr = <<MetadataLen * MetadataLen>>
    /\ walkLen = MetadataLen

\* C28 as stated: when check_reader has read its reader to the end, the
\* hash algorithm has been fed exactly the bytes of the content, in order
\* and each once, and the hash is the one check_bytes computes from the
\* same content, whatever the length of the content.
C28_ReaderFeedsBytesRead ==
    rdPc = "done" =>
       /\ fed = input.content
       /\ GetHash(fed) = CheckBytes(input.content)

\* C28, the case that fails: a content of one byte was read to its end and
\* the algorithm was fed the whole 1 KiB buffer, the byte and 1023 zeroes;
\* the hash differs from that of check_bytes
C28_ShortReadFeedsWholeBuffer ==
    /\ rdPc = "done"
    /\ Size(input.content) = 1
    /\ Size(fed) = READ_BUFFER_SIZE
    /\ GetHash(fed) # CheckBytes(input.content)

(***************************************************************************)
(* Properties of the worker's use of the cache and of the event fds.       *)
(***************************************************************************)
\* C29 as stated: for an event whose path does not resolve the worker
\* leaves the cache alone: no get_result_for and no set_result_for is
\* called for it, and no entry appears under the placeholder name.
C29_UnresolvedSkipsCache ==
    /\ \A e \in delivered :
          ~e.named =>
             /\ \A g \in cacheGets : g.fd # e.fd
             /\ e.fd \notin cacheSets
    /\ "<n/a>" \notin DOMAIN cache

\* C29, the case that fails: the event's path did not resolve, the lookup
\* was skipped and the detector ran, and its result was then stored under
\* the key "<n/a>"
C29_StoredUnderPlaceholder ==
    \E e \in delivered :
       /\ ~e.named
       /\ \A g \in cacheGets : g.fd # e.fd
       /\ e.fd \in invoked
       /\ e.fd \in cacheSets
       /\ "<n/a>" \in DOMAIN cache
       /\ \E r \in returned : r.fd = e.fd /\ ~r.cached

\* C30 as stated: every event fd of the kernel whose event has been
\* handled (its response written, or for an event without response its
\* callback returned) has been closed by the daemon, and exactly once;
\* this for permission and other events and for either pid.
C30_EveryFdClosedOnce ==
    \A fd \in 1..(nextFd - 1) :
       (\/ \E w \in Range(written) : w.fd = fd
        \/ \E r \in returned : r.fd = fd /\ r.kind = "FanotifyEvent")
       => Cardinality({r \in returned : r.fd = fd /\ r.closed}) = 1

\* C30, the case that fails: a permission event of the daemon's own pid was
\* answered by the reader, which went on to poll again, and an event of the
\* daemon's own pid without response was returned by detector_callback
\* before a File was made of its fd; neither fd was closed, and with the
\* queues empty and the threads idle nothing is left to close them
C30_OwnFdsLeftOpen ==
    /\ \E w \in Range(written) :
          /\ w.by = "reader" /\ w.fd \in 1..(nextFd - 1)
          /\ \A r \in returned : r.fd # w.fd
    /\ \E r \in returned :
          /\ r.kind = "FanotifyEvent" /\ ~r.closed
          /\ \E e \in delivered : e.fd = r.fd /\ e.pid = "daemon"
    /\ kernelQ = <<>> /\ detQ = <<>> /\ respQ = <<>>
    /\ readerPc = "poll" /\ respPc = "recv" /\ workerPc = "recv"

(***************************************************************************)
(* Properties of the threads' synchronisation and of the channels.         *)
(***************************************************************************)
\* C31: at most one of the reader and the responder is inside a verdict
\* write, and write_lock is held exactly while its holder is at the write:
\* not while the reader polls, reads or walks the buffer, and not while the
\* responder waits on its queue or for the worker's reply.
C31_WriteLockOnlyAroundWrite ==
    /\ ~(readerPc = "write" /\ respPc = "write")
    /\ write_lock = "reader" <=> readerPc = "write"
    /\ write_lock = "responder" <=> respPc = "write"

\* C31, the case: the reader has an own-pid permission event to answer and
\* waits for the mutex while the responder, which holds it, is at its write
C31_ReaderWaitsForResponder ==
    /\ readerPc = "lock"
    /\ respPc = "write"
    /\ write_lock = "responder"

\* the kernel events waiting in the worker's queue, as positions of detQ
\* (the kernel hands out event fds in increasing order, and one read returns
\* the records in the order of the kernel's queue: the order of the fds is
\* the order the events were read in)
C32_Waiting(kinds) == {i \in DOMAIN detQ : detQ[i].kind \in kinds}

C32_KernelKinds == {"FanotifyEvent", "FanotifyEventWithResponse"}

\* the worker takes the forwarded events in the order they were read: the
\* events still queued for the responder or for the worker were read after
\* every event the worker has taken, and are queued in the order read
C32_InOrder ==
    /\ \A i, j \in DOMAIN respQ : i < j => respQ[i].meta.fd < respQ[j].meta.fd
    /\ \A i, j \in C32_Waiting(C32_KernelKinds) :
          i < j => detQ[i].meta.fd < detQ[j].meta.fd
    /\ \A i \in C32_Waiting(C32_KernelKinds), j \in DOMAIN respQ :
          detQ[i].meta.fd < respQ[j].meta.fd
    /\ \A r \in returned :
          /\ \A i \in C32_Waiting(C32_KernelKinds) : r.fd < detQ[i].meta.fd
          /\ \A j \in DOMAIN respQ : r.fd < respQ[j].meta.fd
    /\ workerPc # "recv" /\ workerCmd.kind \in C32_KernelKinds =>
          /\ \A i \in C32_Waiting(C32_KernelKinds) :
                workerCmd.meta.fd < detQ[i].meta.fd
          /\ \A j \in DOMAIN respQ : workerCmd.meta.fd < respQ[j].meta.fd

\* the responder writes the verdicts in the order the events were read
C32_VerdictsInOrder ==
    \A i, j \in DOMAIN written :
       i < j /\ written[i].by = "responder" /\ written[j].by = "responder"
       => written[i].fd < written[j].fd

\* C32 as stated: forwarded events are processed in the order read, at
\* most one kernel event awaits the worker at any time, and the verdicts of
\* the permission events of other pids are written in the order read.
C32_OrderedOneAtATime ==
    /\ C32_InOrder
    /\ Cardinality(C32_Waiting(C32_KernelKinds)) <= 1
    /\ C32_VerdictsInOrder

\* C32 amended: forwarded events are processed in the order read, at most
\* one permission event awaits the worker at any time (events without
\* response queue up behind one another), and the verdicts of the
\* permission events of other pids are written in the order read.
C32_OrderedOnePermAtATime ==
    /\ C32_InOrder
    /\ Cardinality(C32_Waiting({"FanotifyEventWithResponse"})) <= 1
    /\ C32_VerdictsInOrder

\* C32, the case: the responder has written the verdict of a permission
\* event, and two events without response read after it wait for the
\* worker, in the order read
C32_TwoNormalEventsQueued ==
    /\ Cardinality(C32_Waiting({"FanotifyEvent"})) >= 2
    /\ \E w \in Range(written) :
          /\ w.by = "responder"
          /\ \A i \in C32_Waiting({"FanotifyEvent"}) : w.fd < detQ[i].meta.fd

\* the kind of CommandResult each command is answered with
C33_ResultKind(kind) ==
    IF kind = "FanotifyEventWithResponse" THEN "FanotifyResponse"
    ELSE IF kind = "QueryQuarantine" THEN "QuarantineEntries"
    ELSE "QuarantineAction"

\* the commands of the caller with the id that the worker has not answered:
\* those in its queue and the one it is working on
C33_Pending(id) ==
    Cardinality({i \in DOMAIN detQ :
                    detQ[i].id = id /\ detQ[i].kind # "FanotifyEvent"})
    + (IF workerPc # "recv" /\ workerCmd.kind # "FanotifyEvent"
          /\ workerCmd.id = id
       THEN 1 ELSE 0)

\* the ids are distinct and every result is on the channel of its caller:
\* the monitor's channel holds verdicts only and the control server's
\* channel holds the result of the command it waits for
C33_Routed ==
    /\ ControlPair.id # MonitorPair.id
    /\ ChannelOf(ControlPair.id) = "control"
    /\ ChannelOf(MonitorPair.id) = "monitor"
    /\ \A i \in DOMAIN clientRx : clientRx[i].kind = "FanotifyResponse"
    /\ \A i \in DOMAIN ctlRx :
          /\ ctlPc = "wait"
          /\ ctlRx[i].kind = C33_ResultKind(ActionOf(ctlCur.cmd))
    /\ Len(clientRx) <= 1 /\ Len(ctlRx) <= 1
    /\ clientRx # <<>> => respPc = "wait"

\* C33 as stated: com_pair hands out distinct ids; every command that
\* expects a reply gets exactly one CommandResult of its kind on the channel
\* of its id: while a caller waits, either its command is with the worker,
\* which goes on to answer it, or its one result is on its channel; the
\* monitor gets no quarantine result and the control server no verdict.
C33_OneReplyOnOwnChannel ==
    /\ C33_Routed
    /\ ctlPc = "wait" => C33_Pending(ControlPair.id) + Len(ctlRx) = 1
    /\ respPc = "wait" => C33_Pending(MonitorPair.id) + Len(clientRx) = 1
    /\ workerPc = "panicked" => workerCmd.kind = "FanotifyEvent"

\* C33, the case that fails: the control server waits for the result of a
\* quarantine command, and the worker has panicked on that command without
\* sending one
C33_CommandNeverAnswered ==
    /\ ctlPc = "wait" /\ ctlRx = <<>>
    /\ workerPc = "panicked"
    /\ workerCmd.id = ControlPair.id
    /\ workerCmd.kind \in {"QueryQuarantine", "RestoreQuarantineEntry",
                           "DeleteQuarantineEntry"}

(***************************************************************************)
(* Properties of the quarantine list.                                      *)
(***************************************************************************)
\* the uuids of a directory that have their payload and their sidecar
C34_Pairs(dir) == DOMAIN dir.payloads \cap DOMAIN dir.sidecars

\* a list removes every payload without sidecar and every sidecar without
\* payload, and returns one entry for each of the other uuids
C34_ListsThePairs(q) ==
    /\ DOMAIN q.after.payloads = C34_Pairs(q.before)
    /\ DOMAIN q.after.sidecars = C34_Pairs(q.before)
    /\ LET es == GetStoredEntries(q.before)
       IN /\ {es[i].id : i \in DOMAIN es} = C34_Pairs(q.before)
          /\ Len(es) = Cardinality(C34_Pairs(q.before))

\* C34 as stated: a list returns exactly the entries with payload and
\* sidecar, deletes the payloads without sidecar and the sidecars without
\* payload, and leaves the files of the others as they were.
C34_ListLeavesPairsUntouched ==
    /\ workerPc = "panicked" => workerCmd.kind # "QueryQuarantine"
    /\ \A q \in qops :
          q.op = "list" =>
             /\ C34_ListsThePairs(q)
             /\ \A x \in C34_Pairs(q.before) :
                   /\ q.after.payloads[x] = q.before.payloads[x]
                   /\ q.after.sidecars[x] = q.before.sidecars[x]

\* C34, the case that fails: the directory holds a payload and its sidecar,
\* the sidecar is not the JSON of an entry, and the worker has panicked in
\* the list without a result for the control server, which waits
C34_ListPanicsOnSidecar ==
    /\ workerPc = "panicked" /\ workerCmd.kind = "QueryQuarantine"
    /\ ctlPc = "wait" /\ ctlRx = <<>>
    /\ \E q \in qops :
          /\ q.op = "list"
          /\ \E x \in C34_Pairs(q.before) : q.before.sidecars[x].shape = "broken"

(***************************************************************************)
(* Properties of a detection while the database is reloaded.               *)
(***************************************************************************)
\* C35: while do_detect iterates, every step of the worker, of the watcher
\* and of the updater leaves the entries it iterates over and their order as
\* they are: they stay the color-0 entries of the one object the detector
\* loaded, and the loop goes through them one by one.
C35_NoSwapMidDetection ==
    [][workerPc = "compare" =>
          /\ snapshot' = snapshot
          /\ loadedVersion' = loadedVersion
          /\ snapshot' = SelectColor(stored'[loadedVersion' + 1], 0)
          /\ compare_counter' \in {compare_counter, compare_counter + 1}]_vars

\* C35, the case: a detection has compared the first of two entries, and a
\* mark_update that began after the detector loaded its object has stored
\* an object with other entries
C35_ReloadedMidDetection ==
    /\ workerPc = "compare"
    /\ compare_counter >= 1 /\ compare_counter < Len(snapshot)
    /\ version > loadedVersion
    /\ SelectColor(stored[version + 1], 0) # snapshot
    /\ changed

(***************************************************************************)
(* Properties of the dispatch of the post-detection actions.               *)
(***************************************************************************)
\* the post-detection threads spawned for the event of fd
C36_Threads(fd) == {i \in 1..Len(spawned) : spawned[i].fd = fd}

\* C36: every Deny that detector_callback returned, computed or served from
\* the cache, spawned exactly one post-detection thread, for the filename
\* of its event; every Allow spawned none; no thread was spawned for an
\* event that has not returned; and a thread that ran to its end moved
\* the file into the quarantine exactly when the quarantine is enabled
\* and the path existed
C36_OneDispatchPerDeny ==
    /\ \A r \in returned :
          Cardinality(C36_Threads(r.fd)) =
              IF r.verdict = "Deny" THEN 1 ELSE 0
    /\ \A i \in 1..Len(spawned) :
          /\ \E r \in returned : r.fd = spawned[i].fd /\ r.verdict = "Deny"
          /\ \E d \in delivered :
                d.fd = spawned[i].fd /\ spawned[i].path = Filename(d)
    /\ ~quarantineEnabled => adds = {}
    /\ Cardinality(adds) <=
          Cardinality({i \in 1..Len(spawned) : spawned[i].state = "done"})

\* a computed Deny and then a cached Deny have both dispatched
C36_CachedAndFreshDenyDispatched ==
    /\ \E r \in returned : r.verdict = "Deny" /\ r.cached
                            /\ C36_Threads(r.fd) # {}
    /\ \E r \in returned : r.verdict = "Deny" /\ ~r.cached
                            /\ C36_Threads(r.fd) # {}

(***************************************************************************)
(* Properties of the cache while the file changes under a detection.       *)
(***************************************************************************)
\* C37: when set_result_for stores the verdict of a detection, the
\* fingerprint it takes of the file is a fingerprint of the content that
\* check_reader hashed: the file holds that content at the store
C37_StoredForHashedContent ==
    [][workerPc = "finish" /\ cacheSets' # cacheSets
          => hash = files[workerCmd.meta.path].content]_vars

\* the detection hashed one content and found a Match, the file was
\* written with another content, which matches nothing, and with a new
\* size or mtime while the detection ran, and the cache now holds Match
\* under the fingerprint the file has after the write
C37_OldVerdictUnderNewFingerprint ==
    /\ workerPc = "recv"
    /\ workerCmd.kind \in {"FanotifyEvent", "FanotifyEventWithResponse"}
    /\ workerCmd.meta.fd \in cacheSets
    /\ LET e == workerCmd.meta
           f == files[e.path]
       IN /\ f.content # hash
          /\ f.stat # Stat0
          /\ \A i \in 1..Len(snapshot) :
                CompareFn(format, threshold, f.content, snapshot[i])
                    = "nomatch"
          /\ EntryOf(cache, Filename(e)) =
                <<[data |-> f.stat, result |-> "Match"]>>
          /\ CacheGet(cacheEnabled, cache, Filename(e), f.stat) = "Match"

(***************************************************************************)
(* Properties of the quarantine mutex.                                     *)
(***************************************************************************)
\* C38: every call the decision worker made on the quarantine found a
\* sidecar beside each payload of the directory, and the payload of an
\* add_file that has moved the file and not yet written the sidecar is
\* still in the directory, as is the payload of every add whose file has
\* not been restored or deleted by a client since
C38_ListNeverSeesHalfAdd ==
    /\ \A q \in qops :
          DOMAIN q.before.payloads \subseteq DOMAIN q.before.sidecars
    /\ \A i \in 1..Len(spawned) :
          spawned[i].state = "moving" =>
              /\ spawned[i].id \in DOMAIN quarantineDir.payloads
              /\ spawned[i].id \notin DOMAIN quarantineDir.sidecars
              /\ \A j \in 1..Len(spawned) :
                    spawned[j].state = "moving" => j = i
    /\ acts = <<>> =>
          \A a \in adds : a.id \in DOMAIN quarantineDir.payloads

\* an add_file has moved the file and holds the mutex while the worker is
\* at a QueryQuarantine and waits for it
C38_ListWaitsForAdd ==
    /\ QuarantineHeld
    /\ workerPc = "callback"
    /\ workerCmd.kind = "QueryQuarantine"

(***************************************************************************)
(* Properties of the file a post-detection thread moves.                   *)
(***************************************************************************)
\* the stored entries that match the hash of a content
C39_Detects(c) ==
    \E k \in 1..Len(loadedObj) :
        loadedObj[k].color = 0
        /\ CompareFn(format, threshold, c, loadedObj[k]) = "match"

\* C39: when a post-detection thread moves a file into the quarantine, it
\* is the file its detection returned Deny for: the file at the path has
\* the stat it had at the verdict, and its content is one the database
\* detects
C39_MovesTheDetectedFile ==
    [][\A i \in 1..Len(spawned) :
          (spawned[i].state = "spawned" /\ spawned'[i].state = "done"
              /\ adds' # adds)
          => /\ \E r \in returned :
                   /\ r.fd = spawned[i].fd /\ r.verdict = "Deny"
                   /\ r.stat = files[spawned[i].path].stat
             /\ C39_Detects(files[spawned[i].path].content)]_vars

\* the quarantine holds a payload whose content the database does not
\* detect and for which detector_callback never returned Deny: the file
\* that replaced the detected one at its path
C39_OtherFileQuarantined ==
    \E a \in adds :
        /\ ~C39_Detects(a.file.content)
        /\ \A r \in returned : r.stat # a.file.stat
        /\ a.id \in DOMAIN quarantineDir.payloads
        /\ quarantineDir.payloads[a.id].content = a.file.content

(***************************************************************************)
(* Properties of the detection_distance of a stored entry.                 *)
(***************************************************************************)
\* the worker has just compared the hash with a modern entry of distance 0
C40_AtZeroDistance ==
    /\ format = "modern"
    /\ workerPc \in {"compare", "finish", "panicked"}
    /\ compare_counter >= 1 /\ compare_counter <= Len(snapshot)
    /\ snapshot[compare_counter].distance = 0

\* C40: in the modern format an entry of distance 0 is compared like any
\* other: the comparison with it does not end the detection in a panic and
\* does not yield a Match
C40_ZeroDistanceMatchesNothing ==
    C40_AtZeroDistance =>
        /\ workerPc # "panicked" /\ alive
        /\ workerPc = "compare"

\* the comparison with an entry of distance 0 panicked the worker and with
\* it the daemon, before any verdict for the event
C40_ZeroDistancePanics ==
    /\ C40_AtZeroDistance
    /\ workerPc = "panicked" /\ ~alive
    /\ \A r \in returned : r.fd # workerCmd.meta.fd

====
